---- MODULE Spec2Model ----
(***************************************************************************)
(* Suffix arrays by SA-IS (sais), the SuffixArray query layer and the      *)
(* generalized suffix array (GSA) of package suffixarr.                    *)
(*                                                                         *)
(* Go slices are modelled as TLA+ sequences; the element the code calls    *)
(* s[i] is s[i+1] here.  The suffix-array buffer of one construction is    *)
(* the single sequence buf: at recursion depth d the code's sa is          *)
(* buf[0..n) and its text is the caller's input (depth 0) or the summary   *)
(* kept by the parent in buf[tlo..tlo+n).                                  *)
(***************************************************************************)
EXTENDS Integers, Sequences, FiniteSets, TLC

VARIABLES
    pc,      \* "idle" | "building" | "ready" | "returned" | "panic"
    obj,     \* "none" | "sa" | "gsa" | "nil": the object under construction / in use
    text,    \* SuffixArray.text / GSA.text: the text handed to sais
    buf,     \* SuffixArray.sa / GSA.sa: the array sais allocates and returns
    stack,   \* the active _sais / induceSort calls, innermost last
    heap,    \* the data scratch arrays allocated by induceSort
    gsa,     \* the remaining fields of the GSA (src, strIdx, idx, idxBuf, index);
             \* src is the list the constructor was given
    ret      \* the query that returned last and its value, until the caller resumes

vars == <<pc, obj, text, buf, stack, heap, gsa, ret>>

(***************************************************************************)
(* Bounds of the model and constants of the program.                       *)
(***************************************************************************)
MaxLen == 7          \* longest text handed to New
MaxPat == 2          \* longest query pattern
MaxStrs == 2         \* most texts handed to NewGSA_32
MaxTotal == 3        \* most code points in the texts handed to NewGSA_32
MaxInt32 == 2147483647
SmallAlpha == 256
sep == 57344

\* Code points of the texts handed to New: a dense range (small-alphabet
\* path), a far code point (arbitrary-alphabet path) and both ends of the
\* 31-bit range together.
Sigma == {0, 1, 2, MaxInt32}
\* Code points of the query patterns of a SuffixArray.
PSigma == {1, 2}
\* Code points of the texts handed to NewGSA_32, none of them the separator:
\* one next to sep (small-alphabet path) and one further from it than the
\* small-alphabet limit (arbitrary-alphabet path).
GSigma == {sep - 1, sep + SmallAlpha}

MinInt32 == -MaxInt32 - 1

\* int32 addition and subtraction wrap around (two's complement).  The sums
\* are arranged so that no intermediate value leaves the 32-bit range.
Add32(a, b) ==
    IF b > 0 /\ a > MaxInt32 - b THEN ((a - MaxInt32) + (b - MaxInt32)) - 2
    ELSE IF b < 0 /\ a < MinInt32 - b THEN ((a + MaxInt32) + (b + MaxInt32)) + 2
    ELSE a + b

Sub32(a, b) ==
    IF b = MinInt32 THEN Add32(Add32(a, MaxInt32), 1) ELSE Add32(a, -b)

\* len < int(x)*2, the product taken in 64 bits.
LenLtTwice(len, x) == IF x <= 0 THEN FALSE ELSE IF x > len THEN TRUE ELSE len < 2 * x

RECURSIVE SeqsUpTo(_, _)
SeqsUpTo(S, n) ==
    IF n = 0 THEN {<<>>}
    ELSE LET P == SeqsUpTo(S, n - 1)
         IN  P \cup {Append(p, c) : p \in {q \in P : Len(q) = n - 1}, c \in S}

Zeros(n) == [i \in 1..n |-> 0]

\* text[i] of the call described by frame f.
Txt(T, f, b, i) == IF f.tlo < 0 THEN T[i + 1] ELSE b[f.tlo + i + 1]

InText(f, i) == i >= 0 /\ i < f.n

\* The part of a pass's state that outlives the pass.
Core(s) == [buf |-> s.buf, data |-> s.data, bm |-> s.bm, err |-> s.err]

Fail(s) == [s EXCEPT !.err = TRUE]

(***************************************************************************)
(* _sais: the right-to-left scan for minChar, maxChar and numLMS.          *)
(***************************************************************************)
\* A scan that counts every descent, whatever the S flag.
scanStep_noFlag(s, c) ==
    LET l == c
        r == s.l
        s1 == [s EXCEPT !.l = l,
                        !.minChar = IF l < @ THEN l ELSE @,
                        !.maxChar = IF l > @ THEN l ELSE @]
    IN  IF l < r THEN [s1 EXCEPT !.S = TRUE]
        ELSE IF l > r THEN [s1 EXCEPT !.S = FALSE, !.numLMS = @ + 1]
        ELSE s1

scanStep(s, c) ==
    LET l == c
        r == s.l
        s1 == [s EXCEPT !.l = l,
                        !.minChar = IF l < @ THEN l ELSE @,
                        !.maxChar = IF l > @ THEN l ELSE @]
    IN  IF l < r THEN [s1 EXCEPT !.S = TRUE]
        ELSE IF l > r /\ s.S THEN [s1 EXCEPT !.S = FALSE, !.numLMS = @ + 1]
        ELSE s1

RECURSIVE scanLoop(_, _, _, _, _)
scanLoop(T, f, b, i, s) ==
    IF i < 0 THEN s ELSE scanLoop(T, f, b, i - 1, scanStep(s, Txt(T, f, b, i)))

scan(T, f, b) ==
    scanLoop(T, f, b, f.n - 1,
             [l |-> 0, S |-> FALSE, numLMS |-> 0,
              minChar |-> Txt(T, f, b, 0), maxChar |-> Txt(T, f, b, 0)])

currAlphaSizeOf(minChar, maxChar) == Add32(Sub32(maxChar, minChar), 1)

useArb(currAlphaSize, srcAlphaSize) ==
    currAlphaSize > SmallAlpha \/ currAlphaSize > srcAlphaSize

(***************************************************************************)
(* Small-alphabet bucket layer.  freq is data[0..curr) and bucket is       *)
(* data[src..src+curr).                                                    *)
(***************************************************************************)
RECURSIVE frequencyLoop(_, _, _, _, _)
frequencyLoop(T, f, b, d, i) ==
    IF i >= f.n THEN d
    ELSE frequencyLoop(T, f, b,
                       [d EXCEPT ![Txt(T, f, b, i) - f.minChar + 1] = @ + 1], i + 1)

frequency(T, f, b, d) ==
    frequencyLoop(T, f, b, [i \in 1..Len(d) |-> IF i <= f.curr THEN 0 ELSE d[i]], 0)

RECURSIVE bucketStartLoop(_, _, _, _)
bucketStartLoop(d, f, i, offset) ==
    IF i >= f.curr THEN d
    ELSE IF d[i + 1] > 0
         THEN bucketStartLoop([d EXCEPT ![f.src + i + 1] = offset], f, i + 1,
                              offset + d[i + 1])
         ELSE bucketStartLoop(d, f, i + 1, offset)

\* bucketStart that writes a cursor for the absent codes as well.
RECURSIVE bucketStart_allLoop(_, _, _, _)
bucketStart_allLoop(d, f, i, offset) ==
    IF i >= f.curr THEN d
    ELSE bucketStart_allLoop([d EXCEPT ![f.src + i + 1] = offset], f, i + 1,
                             offset + d[i + 1])

bucketStart_all(d, f) == bucketStart_allLoop(d, f, 0, 0)

bucketStart(d, f) == bucketStartLoop(d, f, 0, 0)

RECURSIVE bucketEndLoop(_, _, _, _)
bucketEndLoop(d, f, i, offset) ==
    IF i >= f.curr THEN d
    ELSE IF d[i + 1] > 0
         THEN bucketEndLoop([d EXCEPT ![f.src + i + 1] = offset + d[i + 1] - 1], f,
                            i + 1, offset + d[i + 1])
         ELSE bucketEndLoop(d, f, i + 1, offset)

bucketEnd(d, f) == bucketEndLoop(d, f, 0, 0)

\* bucket[c - minChar] of the small-alphabet path.
Bkt(s, f, c) == s.data[f.src + (c - f.minChar) + 1]
InBkt(f, c) == c - f.minChar >= 0 /\ c - f.minChar < f.curr
SetBkt(s, f, c, v) == [s EXCEPT !.data[f.src + (c - f.minChar) + 1] = v]

(***************************************************************************)
(* Induction engine, small-alphabet path.  A pass takes and returns the    *)
(* record [buf, data, bm, err]; err is set when the code would index or    *)
(* slice out of range.                                                     *)
(***************************************************************************)
insertLMS_body(T, f, s, i) ==
    LET l == Txt(T, f, s.buf, i)
        r == s.l
    IN  IF l < r THEN [s EXCEPT !.l = l, !.S = TRUE]
        ELSE IF l > r /\ s.S
        THEN IF ~InBkt(f, r) THEN Fail(s)
             ELSE LET b == Bkt(s, f, r)
                  IN  IF ~InText(f, b) THEN Fail(s)
                      ELSE [SetBkt(s, f, r, b - 1) EXCEPT
                                !.l = l, !.S = FALSE, !.buf[b + 1] = i + 1,
                                !.lastLMS = b, !.numLMS = @ + 1]
        ELSE [s EXCEPT !.l = l]

RECURSIVE insertLMS_loop(_, _, _, _)
insertLMS_loop(T, f, s, i) ==
    IF i < 0 \/ s.err THEN s ELSE insertLMS_loop(T, f, insertLMS_body(T, f, s, i), i - 1)

\* insertLMS that leaves the slot of the last LMS position it wrote as it is.
insertLMS_keepLast(T, f, s0) ==
    LET s1 == [s0 EXCEPT !.data = bucketEnd(@, f)]
        s2 == insertLMS_loop(T, f,
                  s1 @@ [l |-> 0, S |-> FALSE, lastLMS |-> 0, numLMS |-> 0], f.n - 1)
    IN  Core(s2)

insertLMS(T, f, s0) ==
    LET s1 == [s0 EXCEPT !.data = bucketEnd(@, f)]
        s2 == insertLMS_loop(T, f,
                  s1 @@ [l |-> 0, S |-> FALSE, lastLMS |-> 0, numLMS |-> 0], f.n - 1)
    IN  IF s2.err THEN Core(s2)
        ELSE IF s2.numLMS > 1 THEN Core([s2 EXCEPT !.buf[s2.lastLMS + 1] = 0])
        ELSE Core(s2)

\* The seed of induceSubL and induceL: the suffix at n-1 goes to the start of
\* the bucket of the last character.
seedL(T, f, s) ==
    LET k == f.n - 1
        l == Txt(T, f, s.buf, k - 1)
        r == Txt(T, f, s.buf, k)
        lastChar == Txt(T, f, s.buf, f.n - 1)
    IN  IF ~InText(f, k - 1) \/ ~InBkt(f, lastChar) THEN Fail(s)
        ELSE LET b == Bkt(s, f, lastChar)
             IN  IF ~InText(f, b) THEN Fail(s)
                 ELSE [SetBkt(s, f, lastChar, b + 1) EXCEPT
                           !.buf[b + 1] = IF l < r THEN -k ELSE k]

\* induceSubL_body that leaves a negated entry as it finds it.
induceSubL_body_noRestore(T, f, s, i) ==
    LET j == s.buf[i + 1]
    IN  IF j <= 0 THEN s
        ELSE LET k == j - 1
             IN  IF ~InText(f, k - 1) \/ ~InText(f, k) THEN Fail(s)
                 ELSE LET l == Txt(T, f, s.buf, k - 1)
                          r == Txt(T, f, s.buf, k)
                      IN  IF ~InBkt(f, r) THEN Fail(s)
                          ELSE LET b == Bkt(s, f, r)
                               IN  IF ~InText(f, b) THEN Fail(s)
                                   ELSE [SetBkt(s, f, r, b + 1) EXCEPT
                                            !.buf = [[@ EXCEPT ![i + 1] = 0]
                                                        EXCEPT ![b + 1] =
                                                            IF l < r THEN -k ELSE k]]

induceSubL_body(T, f, s, i) ==
    LET j == s.buf[i + 1]
    IN  IF j = 0 THEN s
        ELSE IF j < 0 THEN [s EXCEPT !.buf[i + 1] = -j]
        ELSE LET k == j - 1
             IN  IF ~InText(f, k - 1) \/ ~InText(f, k) THEN Fail(s)
                 ELSE LET l == Txt(T, f, s.buf, k - 1)
                          r == Txt(T, f, s.buf, k)
                      IN  IF ~InBkt(f, r) THEN Fail(s)
                          ELSE LET b == Bkt(s, f, r)
                               IN  IF ~InText(f, b) THEN Fail(s)
                                   ELSE [SetBkt(s, f, r, b + 1) EXCEPT
                                            !.buf = [[@ EXCEPT ![i + 1] = 0]
                                                        EXCEPT ![b + 1] =
                                                            IF l < r THEN -k ELSE k]]

RECURSIVE induceSubL_loop(_, _, _, _)
induceSubL_loop(T, f, s, i) ==
    IF i >= f.n \/ s.err THEN s
    ELSE induceSubL_loop(T, f, induceSubL_body(T, f, s, i), i + 1)

induceSubL(T, f, s0) ==
    LET s1 == seedL(T, f, [s0 EXCEPT !.data = bucketStart(@, f)])
    IN  IF s1.err THEN s1 ELSE induceSubL_loop(T, f, s1, 0)

\* induceSubS_body that restores a negated entry where it stands instead of
\* moving it to the top of the array.
induceSubS_body_inPlace(T, f, s, i) ==
    LET j == s.buf[i + 1]
    IN  IF j = 0 THEN s
        ELSE IF j < 0 THEN [s EXCEPT !.buf[i + 1] = -j]
        ELSE LET k == j - 1
             IN  IF ~InText(f, k - 1) \/ ~InText(f, k) THEN Fail(s)
                 ELSE LET l == Txt(T, f, s.buf, k - 1)
                          r == Txt(T, f, s.buf, k)
                      IN  IF ~InBkt(f, r) THEN Fail(s)
                          ELSE LET b == Bkt(s, f, r)
                               IN  IF ~InText(f, b) THEN Fail(s)
                                   ELSE [SetBkt(s, f, r, b - 1) EXCEPT
                                            !.buf = [[@ EXCEPT ![i + 1] = 0]
                                                        EXCEPT ![b + 1] =
                                                            IF l > r THEN -k ELSE k]]

induceSubS_body(T, f, s, i) ==
    LET j == s.buf[i + 1]
    IN  IF j = 0 THEN s
        ELSE IF j < 0
        THEN IF ~InText(f, s.top - 1) THEN Fail(s)
             ELSE [s EXCEPT !.top = @ - 1,
                            !.buf = [[@ EXCEPT ![i + 1] = 0] EXCEPT ![s.top] = -j]]
        ELSE LET k == j - 1
             IN  IF ~InText(f, k - 1) \/ ~InText(f, k) THEN Fail(s)
                 ELSE LET l == Txt(T, f, s.buf, k - 1)
                          r == Txt(T, f, s.buf, k)
                      IN  IF ~InBkt(f, r) THEN Fail(s)
                          ELSE LET b == Bkt(s, f, r)
                               IN  IF ~InText(f, b) THEN Fail(s)
                                   ELSE [SetBkt(s, f, r, b - 1) EXCEPT
                                            !.buf = [[@ EXCEPT ![i + 1] = 0]
                                                        EXCEPT ![b + 1] =
                                                            IF l > r THEN -k ELSE k]]

RECURSIVE induceSubS_loop(_, _, _, _)
induceSubS_loop(T, f, s, i) ==
    IF i < 0 \/ s.err THEN s
    ELSE induceSubS_loop(T, f, induceSubS_body(T, f, s, i), i - 1)

induceSubS(T, f, s0) ==
    Core(induceSubS_loop(T, f,
             [s0 EXCEPT !.data = bucketEnd(@, f)] @@ [top |-> f.n], f.n - 1))

\* induceL_body that does not advance the bucket head after the write.
induceL_body_noAdvance(T, f, s, i) ==
    LET j == s.buf[i + 1]
    IN  IF j <= 0 THEN s
        ELSE LET k == j - 1
             IN  IF ~InText(f, k) THEN Fail(s)
                 ELSE LET r == Txt(T, f, s.buf, k)
                          kk == IF k > 0 /\ Txt(T, f, s.buf, k - 1) < r THEN -k ELSE k
                      IN  IF ~InBkt(f, r) THEN Fail(s)
                          ELSE LET b == Bkt(s, f, r)
                               IN  IF ~InText(f, b) THEN Fail(s)
                                   ELSE [s EXCEPT !.buf[b + 1] = kk]

induceL_body(T, f, s, i) ==
    LET j == s.buf[i + 1]
    IN  IF j <= 0 THEN s
        ELSE LET k == j - 1
             IN  IF ~InText(f, k) THEN Fail(s)
                 ELSE LET r == Txt(T, f, s.buf, k)
                          kk == IF k > 0 /\ Txt(T, f, s.buf, k - 1) < r THEN -k ELSE k
                      IN  IF ~InBkt(f, r) THEN Fail(s)
                          ELSE LET b == Bkt(s, f, r)
                               IN  IF ~InText(f, b) THEN Fail(s)
                                   ELSE [SetBkt(s, f, r, b + 1) EXCEPT !.buf[b + 1] = kk]

RECURSIVE induceL_loop(_, _, _, _)
induceL_loop(T, f, s, i) ==
    IF i >= f.n \/ s.err THEN s
    ELSE induceL_loop(T, f, induceL_body(T, f, s, i), i + 1)

induceL(T, f, s0) ==
    LET s1 == seedL(T, f, [s0 EXCEPT !.data = bucketStart(@, f)])
    IN  IF s1.err THEN s1 ELSE induceL_loop(T, f, s1, 0)

induceS_body(T, f, s, i) ==
    LET j0 == s.buf[i + 1]
    IN  IF j0 >= 0 THEN s
        ELSE LET j == -j0
                 k == j - 1
             IN  IF ~InText(f, k) THEN Fail([s EXCEPT !.buf[i + 1] = j])
                 ELSE LET r == Txt(T, f, s.buf, k)
                          kk == IF k > 0 /\ Txt(T, f, s.buf, k - 1) <= r THEN -k ELSE k
                      IN  IF ~InBkt(f, r) THEN Fail(s)
                          ELSE LET b == Bkt(s, f, r)
                               IN  IF ~InText(f, b) THEN Fail(s)
                                   ELSE [SetBkt(s, f, r, b - 1) EXCEPT
                                            !.buf = [[@ EXCEPT ![i + 1] = j]
                                                        EXCEPT ![b + 1] = kk]]

RECURSIVE induceS_loop(_, _, _, _)
induceS_loop(T, f, s, i) ==
    IF i < 0 \/ s.err THEN s
    ELSE induceS_loop(T, f, induceS_body(T, f, s, i), i - 1)

induceS(T, f, s0) ==
    induceS_loop(T, f, [s0 EXCEPT !.data = bucketEnd(@, f)], f.n - 1)

(***************************************************************************)
(* Summarization.  summary is sa[n-numLMS..n), summarySA is sa[0..numLMS). *)
(***************************************************************************)
\* lengthLMS_body that measures every length from the final position.
lengthLMS_body_keepPrev(T, f, s, i) ==
    LET l == Txt(T, f, s.buf, i)
        r == s.l
    IN  IF l < r THEN [s EXCEPT !.l = l, !.S = TRUE]
        ELSE IF l > r /\ s.S
        THEN [s EXCEPT !.l = l, !.S = FALSE,
                       !.buf[((i + 1) \div 2) + 1] = s.prev - i]
        ELSE [s EXCEPT !.l = l]

lengthLMS_body(T, f, s, i) ==
    LET l == Txt(T, f, s.buf, i)
        r == s.l
    IN  IF l < r THEN [s EXCEPT !.l = l, !.S = TRUE]
        ELSE IF l > r /\ s.S
        THEN [s EXCEPT !.l = l, !.S = FALSE,
                       !.buf[((i + 1) \div 2) + 1] = s.prev - i, !.prev = i]
        ELSE [s EXCEPT !.l = l]

RECURSIVE lengthLMS_loop(_, _, _, _)
lengthLMS_loop(T, f, s, i) ==
    IF i < 0 THEN s ELSE lengthLMS_loop(T, f, lengthLMS_body(T, f, s, i), i - 1)

lengthLMS(T, f, s0) ==
    Core(lengthLMS_loop(T, f, s0 @@ [l |-> 0, S |-> FALSE, prev |-> f.n - 1], f.n - 1))

\* equalLMS that compares the lengths only.
equalLMS_lenOnly(T, f, b, l, r, lLen, rLen) == IF lLen # rLen THEN "ne" ELSE "eq"

RECURSIVE equalLMS(_, _, _, _, _, _, _)
equalLMS(T, f, b, l, r, lLen, rLen) ==
    IF lLen # rLen THEN "ne"
    ELSE IF lLen <= 0 THEN "eq"
    ELSE IF ~InText(f, l) \/ ~InText(f, r) THEN "panic"
    ELSE IF Txt(T, f, b, l) # Txt(T, f, b, r) THEN "ne"
    ELSE equalLMS(T, f, b, l + 1, r + 1, lLen - 1, rLen - 1)

\* summary[j] lives in sa[n - numLMS + j].
SumIx(f, j) == f.n - f.numLMS + j + 1

\* summarise_body that gives every LMS substring a name of its own while it
\* counts the distinct ones as before.
summarise_body_alwaysNew(T, f, s, i) ==
    LET prev == s.buf[SumIx(f, i - 1)]
        curr == s.buf[SumIx(f, i)]
    IN  IF ~InText(f, curr \div 2) THEN Fail(s)
        ELSE LET currLen == s.buf[(curr \div 2) + 1]
                 eq == equalLMS(T, f, s.buf, prev, curr, s.prevLen, currLen)
             IN  IF eq = "panic" THEN Fail(s)
                 ELSE [s EXCEPT !.name = s.name + 1,
                                !.maxName = IF eq = "eq" THEN @ ELSE @ + 1,
                                !.prevLen = currLen,
                                !.buf[(curr \div 2) + 1] = s.name + 1]

summarise_body(T, f, s, i) ==
    LET prev == s.buf[SumIx(f, i - 1)]
        curr == s.buf[SumIx(f, i)]
    IN  IF ~InText(f, curr \div 2) THEN Fail(s)
        ELSE LET currLen == s.buf[(curr \div 2) + 1]
                 eq == equalLMS(T, f, s.buf, prev, curr, s.prevLen, currLen)
                 name == IF eq = "eq" THEN s.name ELSE s.name + 1
             IN  IF eq = "panic" THEN Fail(s)
                 ELSE [s EXCEPT !.name = name,
                                !.maxName = IF eq = "eq" THEN @ ELSE @ + 1,
                                !.prevLen = currLen,
                                !.buf[(curr \div 2) + 1] = name]

RECURSIVE summarise_loop(_, _, _, _)
summarise_loop(T, f, s, i) ==
    IF i >= f.numLMS \/ s.err THEN s
    ELSE summarise_loop(T, f, summarise_body(T, f, s, i), i + 1)

\* Collect the names of sa[0..n/2) into summary[0..).
RECURSIVE summarise_collect(_, _, _, _)
summarise_collect(f, s, i, j) ==
    IF i >= f.n \div 2 \/ s.err THEN s
    ELSE LET curr == s.buf[i + 1]
         IN  IF curr <= 0 THEN summarise_collect(f, s, i + 1, j)
             ELSE IF j >= f.numLMS THEN Fail(s)
             ELSE summarise_collect(f,
                      [s EXCEPT !.buf = [[@ EXCEPT ![i + 1] = 0]
                                            EXCEPT ![SumIx(f, j)] = curr]],
                      i + 1, j + 1)

\* Returns the pass record extended with maxName.
summarise(T, f, s0) ==
    LET s1 == lengthLMS(T, f, s0)
        p0 == s1.buf[SumIx(f, 0)]
    IN  IF ~InText(f, p0) THEN Fail(s1) @@ [maxName |-> 0]
        ELSE LET s2 == [s1 EXCEPT !.buf[(p0 \div 2) + 1] = 1]
                          @@ [name |-> 1, maxName |-> 1,
                              prevLen |-> s1.buf[(p0 \div 2) + 1]]
                 s3 == summarise_loop(T, f, s2, 1)
             IN  IF s3.err \/ s3.maxName >= f.numLMS
                 THEN Core(s3) @@ [maxName |-> s3.maxName]
                 ELSE Core(summarise_collect(f, s3, 0, 0)) @@ [maxName |-> s3.maxName]

(***************************************************************************)
(* Recursion driver helpers: unmap, the direct copy, expand.               *)
(***************************************************************************)
unmap_scan_body(T, f, s, i) ==
    LET l == Txt(T, f, s.buf, i)
        r == s.l
    IN  IF l < r THEN [s EXCEPT !.l = l, !.S = TRUE]
        ELSE IF l > r /\ s.S
        THEN IF s.j - 1 < 0 THEN Fail(s)
             ELSE [s EXCEPT !.l = l, !.S = FALSE, !.j = @ - 1,
                            !.buf[SumIx(f, s.j - 1)] = i + 1]
        ELSE [s EXCEPT !.l = l]

RECURSIVE unmap_scan(_, _, _, _)
unmap_scan(T, f, s, i) ==
    IF i < 0 \/ s.err THEN s ELSE unmap_scan(T, f, unmap_scan_body(T, f, s, i), i - 1)

unmap_body(f, s, i) ==
    LET j == s.buf[i + 1]
    IN  IF j < 0 \/ j >= f.numLMS THEN Fail(s)
        ELSE [s EXCEPT !.buf = [[@ EXCEPT ![i + 1] = s.buf[SumIx(f, j)]]
                                   EXCEPT ![SumIx(f, j)] = 0]]

RECURSIVE unmap_loop(_, _, _)
unmap_loop(f, s, i) ==
    IF i >= f.numLMS \/ s.err THEN s ELSE unmap_loop(f, unmap_body(f, s, i), i + 1)

unmap(T, f, s0) ==
    LET s1 == unmap_scan(T, f, s0 @@ [l |-> 0, S |-> FALSE, j |-> f.numLMS], f.n - 1)
    IN  Core(unmap_loop(f, s1, 0))

\* The copy without the clearing of sa[numLMS:].
copySummary_noClear(f, s) ==
    [s EXCEPT !.buf = [i \in 1..Len(@) |->
                          IF i <= f.numLMS THEN @[SumIx(f, i - 1)] ELSE @[i]]]

\* copy(summarySA, summary); clear(sa[numLMS:])
copySummary(f, s) ==
    [s EXCEPT !.buf = [i \in 1..Len(@) |->
                          IF i <= f.numLMS THEN @[SumIx(f, i - 1)]
                          ELSE IF i <= f.n THEN 0 ELSE @[i]]]

expand_body(T, f, s, i) ==
    LET lmsIdx == s.buf[i + 1]
    IN  IF ~InText(f, lmsIdx) THEN Fail(s)
        ELSE LET c == Txt(T, f, s.buf, lmsIdx)
             IN  IF ~InBkt(f, c) THEN Fail(s)
                 ELSE LET b == Bkt(s, f, c)
                      IN  IF ~InText(f, b) THEN Fail(s)
                          ELSE [SetBkt(s, f, c, b - 1) EXCEPT
                                   !.buf = [[@ EXCEPT ![i + 1] = 0]
                                               EXCEPT ![b + 1] = lmsIdx]]

RECURSIVE expand_loop(_, _, _, _)
expand_loop(T, f, s, i) ==
    IF i < 0 \/ s.err THEN s ELSE expand_loop(T, f, expand_body(T, f, s, i), i - 1)

expand(T, f, s0) ==
    expand_loop(T, f,
                [s0 EXCEPT !.data = bucketEnd(frequency(T, f, s0.buf, @), f)],
                f.numLMS - 1)

(***************************************************************************)
(* Arbitrary-alphabet bucket layer.  The map of buckets is the sequence bm *)
(* of records [ch, start, end, size] kept in ascending order of ch; a      *)
(* missing key reads as the zero bucket and is inserted when written, as   *)
(* in a Go map.                                                            *)
(***************************************************************************)
HasKey(bm, c) == \E i \in 1..Len(bm) : bm[i].ch = c
KeyIx(bm, c) == CHOOSE i \in 1..Len(bm) : bm[i].ch = c

BmGet(bm, c) ==
    IF HasKey(bm, c) THEN bm[KeyIx(bm, c)]
    ELSE [ch |-> c, start |-> 0, end |-> 0, size |-> 0]

BmPut(bm, c, rec) ==
    IF HasKey(bm, c) THEN [bm EXCEPT ![KeyIx(bm, c)] = rec]
    ELSE LET lo == SelectSeq(bm, LAMBDA e : e.ch < c)
             hi == SelectSeq(bm, LAMBDA e : e.ch > c)
         IN  lo \o <<rec>> \o hi

\* linearCount uses tmp[0..n) as a bit vector and clears it before it returns;
\* its estimate (f.lc) only sizes the map.
linearCount(f, b) == [i \in 1..Len(b) |-> IF i <= f.n THEN 0 ELSE b[i]]

\* slices.Sort
RECURSIVE slicesSort(_)
slicesSort(q) ==
    IF Len(q) <= 1 THEN q
    ELSE LET m == CHOOSE i \in 1..Len(q) : \A j \in 1..Len(q) : q[i] <= q[j]
         IN  <<q[m]>> \o slicesSort([i \in 1..(Len(q) - 1) |-> IF i < m THEN q[i] ELSE q[i + 1]])

\* make(map[int32]bucket, sz): an empty map, whatever the capacity hint.
makeMap(sz) == <<>>

\* First loop of makeBucketsMap: sizes, and the alphabet in sa[0..alphaSize).
RECURSIVE mbmCount(_, _, _, _)
mbmCount(T, f, s, i) ==
    IF i >= f.n THEN s
    ELSE LET curr == Txt(T, f, s.buf, i)
             bkt == BmGet(s.bm, curr)
             s1 == IF HasKey(s.bm, curr) THEN s
                   ELSE [s EXCEPT !.buf[s.alphaSize + 1] = curr, !.alphaSize = @ + 1]
         IN  mbmCount(T, f, [s1 EXCEPT !.bm = BmPut(@, curr, [bkt EXCEPT !.size = @ + 1])],
                      i + 1)

\* Second loop: cursors in ascending code order, scratch slots cleared.
RECURSIVE mbmAssign(_, _, _, _)
mbmAssign(s, alphabet, i, offset) ==
    IF i >= Len(alphabet) THEN s
    ELSE LET c == alphabet[i + 1]
             curr == BmGet(s.bm, c)
         IN  mbmAssign([s EXCEPT !.buf[i + 1] = 0,
                                 !.bm = BmPut(@, c, [curr EXCEPT
                                            !.start = offset,
                                            !.end = offset + curr.size - 1])],
                       alphabet, i + 1, offset + curr.size)

\* Returns the pass record extended with alphaSize.
makeBucketsMap(T, f, s0) ==
    LET s1 == mbmCount(T, f,
                  [s0 EXCEPT !.buf = linearCount(f, @),
                             !.bm = makeMap(f.lc + (f.lc \div 10))]
                      @@ [alphaSize |-> 0], 0)
        alphabet == slicesSort(SubSeq(s1.buf, 1, s1.alphaSize))
        s2 == [s1 EXCEPT !.buf = [i \in 1..Len(@) |->
                                     IF i <= s1.alphaSize THEN alphabet[i] ELSE @[i]]]
    IN  mbmAssign(s2, alphabet, 0, 0)

\* The orders in which a range loop may visit the entries of the map.
Orders(bm) ==
    {o \in [1..Len(bm) -> 1..Len(bm)] : \A i, j \in 1..Len(bm) : i # j => o[i] # o[j]}

\* The values linearCount may return for a text of n code points.  The n
\* hashes set k bits of the 32 * n, 1 <= k <= n (fewer than the number of
\* distinct code points when two of them hash to the same bit), so some bit
\* stays unset and the result is -32n * ln(1 - k / 32n) rounded, which is k
\* for every n below 32.  The model does not compute the hash: k is any
\* count from 1 to n.
Estimates(n) == 1..n

\* The innermost call together with the choices the run-time makes for it:
\* the visiting order of the next range loop and the estimate of linearCount.
Ranged(f, ord, lc) == [ord |-> ord, lc |-> lc] @@ f

\* bucketStart_arb with the cursor taken from a running offset.
RECURSIVE bucketStart_arb_runningLoop(_, _, _, _)
bucketStart_arb_runningLoop(bm, ord, i, offset) ==
    IF i > Len(ord) THEN bm
    ELSE LET k == ord[i]
         IN  bucketStart_arb_runningLoop([bm EXCEPT ![k].start = offset], ord, i + 1,
                                         offset + bm[k].size)

bucketStart_arb_running(bm, ord) == bucketStart_arb_runningLoop(bm, ord, 1, 0)

\* for ch, b := range buckets { b.start = b.end - b.size + 1; buckets[ch] = b }
RECURSIVE bucketStart_arb_loop(_, _, _)
bucketStart_arb_loop(bm, ord, i) ==
    IF i > Len(ord) THEN bm
    ELSE LET k == ord[i]
         IN  bucketStart_arb_loop([bm EXCEPT ![k].start = bm[k].end - bm[k].size + 1],
                                  ord, i + 1)

bucketStart_arb(bm, ord) == bucketStart_arb_loop(bm, ord, 1)

\* for ch, b := range buckets { b.end = b.start + b.size - 1; buckets[ch] = b }
RECURSIVE bucketEnd_arb_loop(_, _, _)
bucketEnd_arb_loop(bm, ord, i) ==
    IF i > Len(ord) THEN bm
    ELSE LET k == ord[i]
         IN  bucketEnd_arb_loop([bm EXCEPT ![k].end = bm[k].start + bm[k].size - 1],
                                ord, i + 1)

\* bucketEnd_arb that leaves the end cursors where the pass moved them.
bucketEnd_arb_keep(bm, ord) == bm

bucketEnd_arb(bm, ord) == bucketEnd_arb_loop(bm, ord, 1)

(***************************************************************************)
(* Induction engine, arbitrary-alphabet path.                              *)
(***************************************************************************)
insertLMS_arb_body(T, f, s, i) ==
    LET l == Txt(T, f, s.buf, i)
        r == s.l
    IN  IF l < r THEN [s EXCEPT !.l = l, !.S = TRUE]
        ELSE IF l > r /\ s.S
        THEN LET b == BmGet(s.bm, r)
             IN  IF ~InText(f, b.end) THEN Fail(s)
                 ELSE [s EXCEPT !.l = l, !.S = FALSE, !.buf[b.end + 1] = i + 1,
                                !.lastLMS = b.end, !.numLMS = @ + 1,
                                !.bm = BmPut(@, r, [b EXCEPT !.end = @ - 1])]
        ELSE [s EXCEPT !.l = l]

RECURSIVE insertLMS_arb_loop(_, _, _, _)
insertLMS_arb_loop(T, f, s, i) ==
    IF i < 0 \/ s.err THEN s
    ELSE insertLMS_arb_loop(T, f, insertLMS_arb_body(T, f, s, i), i - 1)

insertLMS_arb(T, f, s0) ==
    LET s2 == insertLMS_arb_loop(T, f,
                  s0 @@ [l |-> 0, S |-> FALSE, lastLMS |-> 0, numLMS |-> 0], f.n - 1)
        s3 == IF s2.numLMS > 1 THEN [s2 EXCEPT !.buf[s2.lastLMS + 1] = 0] ELSE s2
    IN  IF s2.err THEN Core(s2) ELSE Core([s3 EXCEPT !.bm = bucketEnd_arb(@, f.ord)])

induceSubL_arb_seed(T, f, s) ==
    LET k == f.n - 1
        l == Txt(T, f, s.buf, k - 1)
        r == Txt(T, f, s.buf, k)
        lastChar == Txt(T, f, s.buf, f.n - 1)
        b == BmGet(s.bm, lastChar)
    IN  IF ~InText(f, k - 1) \/ ~InText(f, b.start) THEN Fail(s)
        ELSE [s EXCEPT !.buf[b.start + 1] = IF l < r THEN -k ELSE k,
                       !.bm = IF b.size > 1
                              THEN BmPut(@, lastChar, [b EXCEPT !.start = @ + 1])
                              ELSE @]

induceSubL_arb_body(T, f, s, i) ==
    LET j == s.buf[i + 1]
    IN  IF j = 0 THEN s
        ELSE IF j < 0 THEN [s EXCEPT !.buf[i + 1] = -j]
        ELSE LET k == j - 1
             IN  IF ~InText(f, k - 1) \/ ~InText(f, k) THEN Fail(s)
                 ELSE LET l == Txt(T, f, s.buf, k - 1)
                          r == Txt(T, f, s.buf, k)
                          b == BmGet(s.bm, r)
                      IN  IF ~InText(f, b.start) THEN Fail(s)
                          ELSE [s EXCEPT
                                   !.buf = [[@ EXCEPT ![i + 1] = 0]
                                               EXCEPT ![b.start + 1] =
                                                   IF l < r THEN -k ELSE k],
                                   !.bm = BmPut(@, r, [b EXCEPT !.start = @ + 1])]

RECURSIVE induceSubL_arb_loop(_, _, _, _)
induceSubL_arb_loop(T, f, s, i) ==
    IF i >= f.n \/ s.err THEN s
    ELSE induceSubL_arb_loop(T, f, induceSubL_arb_body(T, f, s, i), i + 1)

induceSubL_arb(T, f, s0) ==
    LET s1 == induceSubL_arb_seed(T, f, s0)
        s2 == IF s1.err THEN s1 ELSE induceSubL_arb_loop(T, f, s1, 0)
    IN  IF s2.err THEN s2 ELSE [s2 EXCEPT !.bm = bucketStart_arb(@, f.ord)]

induceSubS_arb_body(T, f, s, i) ==
    LET j == s.buf[i + 1]
    IN  IF j = 0 THEN s
        ELSE IF j < 0
        THEN IF ~InText(f, s.top - 1) THEN Fail(s)
             ELSE [s EXCEPT !.top = @ - 1,
                            !.buf = [[@ EXCEPT ![i + 1] = 0] EXCEPT ![s.top] = -j]]
        ELSE LET k == j - 1
             IN  IF ~InText(f, k - 1) \/ ~InText(f, k) THEN Fail(s)
                 ELSE LET l == Txt(T, f, s.buf, k - 1)
                          r == Txt(T, f, s.buf, k)
                          b == BmGet(s.bm, r)
                      IN  IF ~InText(f, b.end) THEN Fail(s)
                          ELSE [s EXCEPT
                                   !.buf = [[@ EXCEPT ![i + 1] = 0]
                                               EXCEPT ![b.end + 1] =
                                                   IF l > r THEN -k ELSE k],
                                   !.bm = BmPut(@, r, [b EXCEPT !.end = @ - 1])]

RECURSIVE induceSubS_arb_loop(_, _, _, _)
induceSubS_arb_loop(T, f, s, i) ==
    IF i < 0 \/ s.err THEN s
    ELSE induceSubS_arb_loop(T, f, induceSubS_arb_body(T, f, s, i), i - 1)

induceSubS_arb(T, f, s0) ==
    LET s2 == induceSubS_arb_loop(T, f, s0 @@ [top |-> f.n], f.n - 1)
    IN  IF s2.err THEN Core(s2) ELSE Core([s2 EXCEPT !.bm = bucketEnd_arb(@, f.ord)])

expand_arb_body(T, f, s, i) ==
    LET lmsIdx == s.buf[i + 1]
    IN  IF ~InText(f, lmsIdx) THEN Fail(s)
        ELSE LET c == Txt(T, f, s.buf, lmsIdx)
                 b == BmGet(s.bm, c)
             IN  IF ~InText(f, b.end) THEN Fail(s)
                 ELSE [s EXCEPT !.buf = [[@ EXCEPT ![i + 1] = 0]
                                            EXCEPT ![b.end + 1] = lmsIdx],
                                !.bm = BmPut(@, c, [b EXCEPT !.end = @ - 1])]

RECURSIVE expand_arb_loop(_, _, _, _)
expand_arb_loop(T, f, s, i) ==
    IF i < 0 \/ s.err THEN s
    ELSE expand_arb_loop(T, f, expand_arb_body(T, f, s, i), i - 1)

expand_arb(T, f, s0) ==
    LET s2 == expand_arb_loop(T, f, s0, f.numLMS - 1)
    IN  IF s2.err THEN s2 ELSE [s2 EXCEPT !.bm = bucketEnd_arb(@, f.ord)]

induceL_arb_seed(T, f, s) ==
    LET k == f.n - 1
        l == Txt(T, f, s.buf, k - 1)
        r == Txt(T, f, s.buf, k)
        lastChar == Txt(T, f, s.buf, f.n - 1)
        b == BmGet(s.bm, lastChar)
    IN  IF ~InText(f, k - 1) \/ ~InText(f, b.start) THEN Fail(s)
        ELSE [s EXCEPT !.buf[b.start + 1] = IF l < r THEN -k ELSE k,
                       !.bm = BmPut(@, lastChar, [b EXCEPT !.start = @ + 1])]

induceL_arb_body(T, f, s, i) ==
    LET j == s.buf[i + 1]
    IN  IF j <= 0 THEN s
        ELSE LET k == j - 1
             IN  IF ~InText(f, k) THEN Fail(s)
                 ELSE LET r == Txt(T, f, s.buf, k)
                          kk == IF k > 0 /\ Txt(T, f, s.buf, k - 1) < r THEN -k ELSE k
                          b == BmGet(s.bm, r)
                      IN  IF ~InText(f, b.start) THEN Fail(s)
                          ELSE [s EXCEPT !.buf[b.start + 1] = kk,
                                         !.bm = BmPut(@, r, [b EXCEPT !.start = @ + 1])]

RECURSIVE induceL_arb_loop(_, _, _, _)
induceL_arb_loop(T, f, s, i) ==
    IF i >= f.n \/ s.err THEN s
    ELSE induceL_arb_loop(T, f, induceL_arb_body(T, f, s, i), i + 1)

induceL_arb(T, f, s0) ==
    LET s1 == induceL_arb_seed(T, f, s0)
        s2 == IF s1.err THEN s1 ELSE induceL_arb_loop(T, f, s1, 0)
    IN  IF s2.err THEN s2 ELSE [s2 EXCEPT !.bm = bucketStart_arb(@, f.ord)]

induceS_arb_body(T, f, s, i) ==
    LET j0 == s.buf[i + 1]
    IN  IF j0 >= 0 THEN s
        ELSE LET j == -j0
                 k == j - 1
             IN  IF ~InText(f, k) THEN Fail(s)
                 ELSE LET r == Txt(T, f, s.buf, k)
                          kk == IF k > 0 /\ Txt(T, f, s.buf, k - 1) <= r THEN -k ELSE k
                          b == BmGet(s.bm, r)
                      IN  IF ~InText(f, b.end) THEN Fail(s)
                          ELSE [s EXCEPT !.buf = [[@ EXCEPT ![i + 1] = j]
                                                     EXCEPT ![b.end + 1] = kk],
                                         !.bm = BmPut(@, r, [b EXCEPT !.end = @ - 1])]

RECURSIVE induceS_arb_loop(_, _, _, _)
induceS_arb_loop(T, f, s, i) ==
    IF i < 0 \/ s.err THEN s
    ELSE induceS_arb_loop(T, f, induceS_arb_body(T, f, s, i), i - 1)

induceS_arb(T, f, s0) ==
    LET s2 == induceS_arb_loop(T, f, s0, f.n - 1)
    IN  IF s2.err THEN s2 ELSE [s2 EXCEPT !.bm = bucketEnd_arb(@, f.ord)]

(***************************************************************************)
(* The recursion driver as a state machine.  A frame is one active call of *)
(* _sais together with the induceSort / induceSort_arb call it makes.      *)
(***************************************************************************)
Top == stack[Len(stack)]

\* Frame whose reduced text starts at the last slot of the callee's sa
\* (summary taken one slot too low, so that the two slices overlap).
Frame_overlap(n, tlo, src, dref, nilsa) ==
    [n |-> n, tlo |-> IF tlo < 0 THEN tlo ELSE n - 1, src |-> src, dref |-> dref,
     nilsa |-> nilsa,
     hbase |-> Len(heap), minChar |-> 0, numLMS |-> 0, curr |-> 0,
     path |-> "none", bm |-> <<>>, alphaSize |-> 0, maxName |-> 0, step |-> "_sais"]

Frame(n, tlo, src, dref, nilsa) ==
    [n |-> n, tlo |-> tlo, src |-> src, dref |-> dref, nilsa |-> nilsa,
     hbase |-> Len(heap), minChar |-> 0, numLMS |-> 0, curr |-> 0,
     path |-> "none", bm |-> <<>>, alphaSize |-> 0, maxName |-> 0, step |-> "_sais"]

\* The record the passes work on, for the innermost call.
Pass0(f) ==
    [buf |-> buf, data |-> IF f.dref = 0 THEN <<>> ELSE heap[f.dref],
     bm |-> f.bm, err |-> FALSE]

At(step, path) ==
    /\ pc = "building"
    /\ stack # <<>>
    /\ Top.step = step
    /\ Top.path = path

\* Store the outcome s of a pass and move the innermost call to step next.
Commit(f, s, next) ==
    /\ buf' = s.buf
    /\ heap' = IF f.dref = 0 THEN heap ELSE [heap EXCEPT ![f.dref] = s.data]
    /\ stack' = [stack EXCEPT ![Len(stack)] = [f EXCEPT !.bm = s.bm, !.step = next]]
    /\ pc' = IF s.err THEN "panic" ELSE pc
    /\ UNCHANGED <<obj, text, gsa, ret>>

\* sais: the two short texts are answered directly, longer ones enter _sais
\* with sa = nil, data = nil, srcAlphaSize = 0.
sais(T) ==
    IF Len(T) = 0 THEN /\ buf' = <<>>
                       /\ pc' = "ready"
                       /\ stack' = <<>>
    ELSE IF Len(T) = 1 THEN /\ buf' = <<0>>
                            /\ pc' = "ready"
                            /\ stack' = <<>>
    ELSE /\ buf' = <<>>
         /\ pc' = "building"
         /\ stack' = <<Frame(Len(T), -1, 0, 0, TRUE)>>

\* _sais: scan, allocate sa when it is nil, choose the path.
Sais ==
    /\ pc = "building" /\ stack # <<>> /\ Top.step = "_sais"
    /\ LET f == Top
           sc == scan(text, f, buf)
           currAlphaSize == currAlphaSizeOf(sc.minChar, sc.maxChar)
           srcAlphaSize == IF f.nilsa THEN currAlphaSize ELSE f.src
           arb == useArb(currAlphaSize, srcAlphaSize)
       IN  /\ buf' = IF f.nilsa THEN Zeros(f.n) ELSE buf
           /\ stack' = [stack EXCEPT ![Len(stack)] =
                  [f EXCEPT !.minChar = sc.minChar, !.numLMS = sc.numLMS,
                            !.curr = currAlphaSize, !.src = srcAlphaSize,
                            !.path = IF arb THEN "arb" ELSE "small",
                            !.step = IF arb THEN "makeBucketsMap" ELSE "frequency"]]
    /\ UNCHANGED <<pc, obj, text, heap, gsa, ret>>

\* induceSort, up to and including frequency: allocate or reuse data, slice
\* freq and buckets out of it, count.
Frequency ==
    /\ At("frequency", "small")
    /\ LET f == Top
           old == IF f.dref = 0 THEN <<>> ELSE heap[f.dref]
           fresh == f.dref = 0 \/ LenLtTwice(Len(old), f.src)
           size == Add32(f.src, f.src)
           d == IF fresh THEN Zeros(size) ELSE old
           hi == Add32(f.src, f.curr)
           bad == \/ fresh /\ size < 0
                  \/ f.curr < 0 \/ f.curr > Len(d)
                  \/ f.src < 0 \/ hi < f.src \/ hi > Len(d)
       IN  IF bad
           THEN /\ pc' = "panic"
                /\ UNCHANGED <<buf, stack, heap>>
           ELSE /\ pc' = pc
                /\ buf' = buf
                /\ heap' = IF fresh THEN Append(heap, frequency(text, f, buf, d))
                           ELSE [heap EXCEPT ![f.dref] = frequency(text, f, buf, d)]
                /\ stack' = [stack EXCEPT ![Len(stack)] =
                       [f EXCEPT !.dref = IF fresh THEN Len(heap) + 1 ELSE @,
                                 !.step = "insertLMS"]]
    /\ UNCHANGED <<obj, text, gsa, ret>>

MakeBucketsMap ==
    /\ At("makeBucketsMap", "arb")
    /\ \E lc \in Estimates(Top.n) :
          LET s == makeBucketsMap(text, Ranged(Top, <<>>, lc), Pass0(Top))
          IN  Commit([Top EXCEPT !.alphaSize = s.alphaSize], s, "insertLMS")

AfterInsert(f) == IF f.numLMS > 1 THEN "induceSubL" ELSE "induceL"

InsertLMS ==
    /\ At("insertLMS", "small")
    /\ Commit(Top, insertLMS(text, Top, Pass0(Top)), AfterInsert(Top))

InsertLMS_arb ==
    /\ At("insertLMS", "arb")
    /\ \E ord \in Orders(Top.bm) :
          Commit(Top, insertLMS_arb(text, Ranged(Top, ord, 0), Pass0(Top)), AfterInsert(Top))

InduceSubL ==
    /\ At("induceSubL", "small")
    /\ Commit(Top, induceSubL(text, Top, Pass0(Top)), "induceSubS")

InduceSubL_arb ==
    /\ At("induceSubL", "arb")
    /\ \E ord \in Orders(Top.bm) :
          Commit(Top, induceSubL_arb(text, Ranged(Top, ord, 0), Pass0(Top)), "induceSubS")

InduceSubS ==
    /\ At("induceSubS", "small")
    /\ Commit(Top, induceSubS(text, Top, Pass0(Top)), "summarise")

InduceSubS_arb ==
    /\ At("induceSubS", "arb")
    /\ \E ord \in Orders(Top.bm) :
          Commit(Top, induceSubS_arb(text, Ranged(Top, ord, 0), Pass0(Top)), "summarise")

Summarise ==
    /\ pc = "building" /\ stack # <<>> /\ Top.step = "summarise"
    /\ LET s == summarise(text, Top, Pass0(Top))
       IN  Commit([Top EXCEPT !.maxName = s.maxName], s,
                  IF s.maxName < Top.numLMS THEN "recurse" ELSE "copy")

\* A recursion on a text that is one slot longer than the summary.
Recurse_oneMore ==
    /\ pc = "building" /\ stack # <<>> /\ Top.step = "recurse"
    /\ LET f == Top
           child == Frame(f.numLMS + 1, f.n - f.numLMS - 1,
                          IF f.path = "small" THEN f.src ELSE f.alphaSize,
                          f.dref, FALSE)
       IN  stack' = Append([stack EXCEPT ![Len(stack)] = [f EXCEPT !.step = "unmap"]],
                           child)
    /\ UNCHANGED <<pc, obj, text, buf, heap, gsa, ret>>

\* A recursion that hands the level's currAlphaSize down on both paths.
Recurse_passCurr ==
    /\ pc = "building" /\ stack # <<>> /\ Top.step = "recurse"
    /\ LET f == Top
           child == Frame(f.numLMS, f.n - f.numLMS, f.curr, f.dref, FALSE)
       IN  stack' = Append([stack EXCEPT ![Len(stack)] = [f EXCEPT !.step = "unmap"]],
                           child)
    /\ UNCHANGED <<pc, obj, text, buf, heap, gsa, ret>>

\* _sais(summary, summarySA, data, srcAlphaSize) resp. (..., alphaSize)
Recurse ==
    /\ pc = "building" /\ stack # <<>> /\ Top.step = "recurse"
    /\ LET f == Top
           child == Frame(f.numLMS, f.n - f.numLMS,
                          IF f.path = "small" THEN f.src ELSE f.alphaSize,
                          f.dref, FALSE)
       IN  stack' = Append([stack EXCEPT ![Len(stack)] = [f EXCEPT !.step = "unmap"]],
                           child)
    /\ UNCHANGED <<pc, obj, text, buf, heap, gsa, ret>>

Unmap ==
    /\ pc = "building" /\ stack # <<>> /\ Top.step = "unmap"
    /\ Commit(Top, unmap(text, Top, Pass0(Top)), "expand")

CopySummary ==
    /\ pc = "building" /\ stack # <<>> /\ Top.step = "copy"
    /\ Commit(Top, copySummary(Top, Pass0(Top)), "expand")

Expand ==
    /\ At("expand", "small")
    /\ Commit(Top, expand(text, Top, Pass0(Top)), "induceL")

Expand_arb ==
    /\ At("expand", "arb")
    /\ \E ord \in Orders(Top.bm) :
          Commit(Top, expand_arb(text, Ranged(Top, ord, 0), Pass0(Top)), "induceL")

InduceL ==
    /\ At("induceL", "small")
    /\ Commit(Top, induceL(text, Top, Pass0(Top)), "induceS")

InduceL_arb ==
    /\ At("induceL", "arb")
    /\ \E ord \in Orders(Top.bm) :
          Commit(Top, induceL_arb(text, Ranged(Top, ord, 0), Pass0(Top)), "induceS")

InduceS ==
    /\ At("induceS", "small")
    /\ Commit(Top, induceS(text, Top, Pass0(Top)), "return")

InduceS_arb ==
    /\ At("induceS", "arb")
    /\ \E ord \in Orders(Top.bm) :
          Commit(Top, induceS_arb(text, Ranged(Top, ord, 0), Pass0(Top)), "return")

\* return sa: the innermost call ends; the outermost one completes the object.
Return ==
    /\ pc = "building" /\ stack # <<>> /\ Top.step = "return"
    /\ stack' = SubSeq(stack, 1, Len(stack) - 1)
    /\ heap' = SubSeq(heap, 1, Top.hbase)
    /\ pc' = IF Len(stack) = 1 THEN "ready" ELSE pc
    /\ UNCHANGED <<obj, text, buf, gsa, ret>>

Build ==
    \/ Sais \/ Frequency \/ MakeBucketsMap
    \/ InsertLMS \/ InsertLMS_arb
    \/ InduceSubL \/ InduceSubL_arb
    \/ InduceSubS \/ InduceSubS_arb
    \/ Summarise \/ Recurse \/ Unmap \/ CopySummary
    \/ Expand \/ Expand_arb
    \/ InduceL \/ InduceL_arb
    \/ InduceS \/ InduceS_arb
    \/ Return

(***************************************************************************)
(* Query layer: comparePrefix, lookup (two binary searches, sort.Search),  *)
(* lookupTextOrder.                                                        *)
(***************************************************************************)
RECURSIVE comparePrefixLoop(_, _, _, _)
comparePrefixLoop(suf, prefix, i, minLen) ==
    IF i >= minLen THEN (IF Len(suf) < Len(prefix) THEN -1 ELSE 0)
    ELSE IF suf[i + 1] < prefix[i + 1] THEN -1
    ELSE IF suf[i + 1] > prefix[i + 1] THEN 1
    ELSE comparePrefixLoop(suf, prefix, i + 1, minLen)

\* comparePrefix without the final length test: a suffix shorter than the
\* prefix compares equal to it.
comparePrefix_noLength(suf, prefix) ==
    LET minLen == IF Len(suf) > Len(prefix) THEN Len(prefix) ELSE Len(suf)
        d == {i \in 1..minLen : suf[i] # prefix[i]}
    IN  IF d = {} THEN 0
        ELSE LET i == CHOOSE x \in d : \A y \in d : x <= y
             IN  IF suf[i] < prefix[i] THEN -1 ELSE 1

comparePrefix(suf, prefix) ==
    comparePrefixLoop(suf, prefix, 0,
                      IF Len(suf) > Len(prefix) THEN Len(prefix) ELSE Len(suf))

\* The predicates handed to sort.Search: strict = FALSE is "suffix >= prefix",
\* strict = TRUE is "suffix > prefix".  The suffix is text[sa[h]:].
lookupPred(T, q, prefix, h, strict) ==
    LET c == comparePrefix(SubSeq(T, q[h + 1] + 1, Len(T)), prefix)
    IN  IF strict THEN c > 0 ELSE c >= 0

\* sort.Search(n, f) on sa[off..off+n): the smallest index for which f holds,
\* found by bisection.  Returns -1 when text[sa[h]:] is out of range.
RECURSIVE sortSearch(_, _, _, _, _, _, _)
sortSearch(T, q, prefix, off, strict, i, j) ==
    IF i >= j THEN i
    ELSE LET h == (i + j) \div 2
             at == q[off + h + 1]
         IN  IF at < 0 \/ at > Len(T) THEN -1
             ELSE IF ~lookupPred(T, q, prefix, off + h, strict)
                  THEN sortSearch(T, q, prefix, off, strict, h + 1, j)
                  ELSE sortSearch(T, q, prefix, off, strict, i, h)

\* lookup returns the slice sa[l:r] as [err, l, r].
lookup(T, q, prefix) ==
    IF Len(prefix) = 0 THEN [err |-> FALSE, l |-> 0, r |-> Len(q)]
    ELSE IF Len(q) = 0 THEN [err |-> FALSE, l |-> 0, r |-> 0]
    ELSE LET l == sortSearch(T, q, prefix, 0, FALSE, 0, Len(q))
             d == IF l < 0 THEN -1 ELSE sortSearch(T, q, prefix, l, TRUE, 0, Len(q) - l)
         IN  IF l < 0 \/ d < 0 THEN [err |-> TRUE, l |-> 0, r |-> 0]
             ELSE [err |-> FALSE, l |-> l, r |-> l + d]

lookupSlice(T, q, prefix) ==
    LET lr == lookup(T, q, prefix) IN SubSeq(q, lr.l + 1, lr.r)

\* lookupTextOrder that returns the copy unsorted.
sortAscending_none(q) == q

\* sort.Slice(cp, cp[i] < cp[j])
sortAscending(q) == slicesSort(q)

lookupTextOrder(T, q, prefix) ==
    [err |-> lookup(T, q, prefix).err, val |-> sortAscending(lookupSlice(T, q, prefix))]

\* LookupSuffix that rejects a suffix as long as the text.
LookupSuffixSA_offByOne(T, q, suffix) ==
    IF Len(suffix) = 0 THEN Len(q)
    ELSE IF Len(q) = 0 \/ Len(suffix) >= Len(T) THEN -1
    ELSE LET l == Len(T) - Len(suffix)
         IN  IF SubSeq(T, l + 1, Len(T)) = suffix THEN l ELSE -1

\* SuffixArray.LookupSuffix
LookupSuffixSA(T, q, suffix) ==
    IF Len(suffix) = 0 THEN Len(q)
    ELSE IF Len(q) = 0 \/ Len(suffix) > Len(T) THEN -1
    ELSE LET l == Len(T) - Len(suffix)
         IN  IF SubSeq(T, l + 1, Len(T)) = suffix THEN l ELSE -1

\* LookupPrefix that tests the empty text before the empty prefix.
LookupPrefixSA_textFirst(T, q, prefix) ==
    IF Len(q) = 0 \/ Len(prefix) > Len(T) THEN -2
    ELSE IF Len(prefix) = 0 THEN -1
    ELSE IF SubSeq(T, 1, Len(prefix)) = prefix THEN 0 ELSE -2

\* SuffixArray.LookupPrefix
LookupPrefixSA(T, q, prefix) ==
    IF Len(prefix) = 0 THEN -1
    ELSE IF Len(q) = 0 \/ Len(prefix) > Len(T) THEN -2
    ELSE IF SubSeq(T, 1, Len(prefix)) = prefix THEN 0 ELSE -2

(***************************************************************************)
(* SuffixArray: New and the four queries.                                  *)
(***************************************************************************)
NoGSA == [src |-> <<>>, strIdx |-> <<>>, idx |-> <<>>, idxBuf |-> <<>>, index |-> <<>>]
NoRet == [op |-> "none", arg |-> <<>>, val |-> <<>>]

\* Patterns of the SuffixArray queries and of the GSA queries.
Pats == SeqsUpTo(PSigma, MaxPat)
GPats == SeqsUpTo(GSigma \cup {sep}, MaxPat)

Init ==
    /\ pc = "idle"
    /\ obj = "none"
    /\ text = <<>>
    /\ buf = <<>>
    /\ stack = <<>>
    /\ heap = <<>>
    /\ gsa = NoGSA
    /\ ret = NoRet

\* New(text)
New ==
    /\ pc = "idle"
    /\ \E t \in SeqsUpTo(Sigma, MaxLen) :
          /\ text' = t
          /\ sais(t)
    /\ obj' = "sa"
    /\ UNCHANGED <<heap, gsa, ret>>

\* The call returns val to the caller, or panics.
Returns(op, arg, val, err) ==
    /\ ret' = [op |-> op, arg |-> arg, val |-> val]
    /\ pc' = IF err THEN "panic" ELSE "returned"

Lookup ==
    /\ pc = "ready" /\ obj = "sa"
    /\ \E P \in Pats :
          Returns("Lookup", P, lookupSlice(text, buf, P), lookup(text, buf, P).err)
    /\ UNCHANGED <<obj, text, buf, stack, heap, gsa>>

LookupTextOrder ==
    /\ pc = "ready" /\ obj = "sa"
    /\ \E P \in Pats :
          LET res == lookupTextOrder(text, buf, P)
          IN  Returns("LookupTextOrder", P, res.val, res.err)
    /\ UNCHANGED <<obj, text, buf, stack, heap, gsa>>

LookupSuffix ==
    /\ pc = "ready" /\ obj = "sa"
    /\ \E S \in Pats : Returns("LookupSuffix", S, LookupSuffixSA(text, buf, S), FALSE)
    /\ UNCHANGED <<obj, text, buf, stack, heap, gsa>>

LookupPrefix ==
    /\ pc = "ready" /\ obj = "sa"
    /\ \E P \in Pats : Returns("LookupPrefix", P, LookupPrefixSA(text, buf, P), FALSE)
    /\ UNCHANGED <<obj, text, buf, stack, heap, gsa>>

(***************************************************************************)
(* GSA.  idx[i].sa is the slice idxBuf[lo:hi]; an Index value is the pair  *)
(* of a string id and the slice idxBuf[lo:lo+len] (its Occurences), so a   *)
(* returned result reads through idxBuf and index as the Go slices do.     *)
(***************************************************************************)
RECURSIVE SumLen(_)
SumLen(src) == IF src = <<>> THEN 0 ELSE Len(Head(src)) + SumLen(Tail(src))

\* One round of the concatenation loop of newGSA_32, for string i.
concatStep(src, g, i) ==
    LET t == src[i + 1]
        k == Len(t)
        r == g.r + k
    IN  [text |-> [p \in 1..Len(g.text) |->
                      IF p - 1 >= g.pos /\ p - 1 < g.pos + k THEN t[p - g.pos]
                      ELSE IF p - 1 = g.pos + k THEN sep
                      ELSE g.text[p]],
         strIdx |-> [p \in 1..Len(g.strIdx) |->
                      IF p - 1 >= g.pos /\ p - 1 <= g.pos + k THEN i ELSE g.strIdx[p]],
         idx |-> [g.idx EXCEPT ![i + 1] = [l |-> g.ll, i |-> 0, lo |-> g.l, hi |-> r]],
         l |-> r, r |-> r, ll |-> g.ll + k + 1, pos |-> g.pos + k + 1]

RECURSIVE concatLoop(_, _, _)
concatLoop(src, g, i) ==
    IF i >= Len(src) THEN g ELSE concatLoop(src, concatStep(src, g, i), i + 1)

newGSA_32(src, strNum) ==
    LET textSz == strNum + Len(src) + 1
    IN  concatLoop(src,
            [text |-> [p \in 1..textSz |-> IF p = 1 THEN sep ELSE 0],
             strIdx |-> Zeros(textSz),
             idx |-> [i \in 1..Len(src) |-> [l |-> 0, i |-> 0, lo |-> 0, hi |-> 0]],
             l |-> 0, r |-> 0, ll |-> 1, pos |-> 1],
            0)

\* The position a result entry stands for: a separator is forwarded by one,
\* the trailing separator ends the iteration (-1).
forward(T, j) ==
    IF T[j + 1] = sep THEN (IF j = Len(T) - 1 THEN -1 ELSE j + 1) ELSE j

fillIdx_body(T, g, res, i) ==
    LET j == forward(T, res[i + 1])
    IN  IF j < 0 THEN [g EXCEPT !.brk = TRUE]
        ELSE IF j = g.prev THEN g
        ELSE LET str == g.strIdx[j + 1]
                 curr == g.idx[str + 1]
             IN  IF curr.i >= curr.hi - curr.lo THEN [g EXCEPT !.err = TRUE]
                 ELSE [g EXCEPT !.sz = IF curr.i = 0 THEN @ + 1 ELSE @,
                                !.idxBuf[curr.lo + curr.i + 1] = j - curr.l,
                                !.idx[str + 1].i = @ + 1,
                                !.prev = j]

RECURSIVE fillIdx_loop(_, _, _, _)
fillIdx_loop(T, g, res, i) ==
    IF i >= Len(res) \/ g.brk \/ g.err THEN g
    ELSE fillIdx_loop(T, fillIdx_body(T, g, res, i), res, i + 1)

\* Returns the GSA extended with sz and err.
fillIdx(T, g, res) ==
    [fillIdx_loop(T, g @@ [sz |-> 0, prev |-> 0, brk |-> FALSE, err |-> FALSE], res, 0)
        EXCEPT !.brk = FALSE]

\* makeIndex_body that leaves the fill counter of the string as it is.
makeIndex_body_noReset(T, g, res, i) ==
    LET j == forward(T, res[i + 1])
    IN  IF j < 0 THEN [g EXCEPT !.brk = TRUE]
        ELSE IF j = 0 THEN g
        ELSE LET str == g.strIdx[j + 1]
                 idx == g.idx[str + 1]
             IN  IF idx.i = 0 THEN g
                 ELSE IF g.k >= g.sz THEN [g EXCEPT !.err = TRUE]
                 ELSE [g EXCEPT !.index[g.k + 1] =
                                    [String |-> str, lo |-> idx.lo, len |-> idx.i],
                                !.k = @ + 1]

makeIndex_body(T, g, res, i) ==
    LET j == forward(T, res[i + 1])
    IN  IF j < 0 THEN [g EXCEPT !.brk = TRUE]
        ELSE IF j = 0 THEN g
        ELSE LET str == g.strIdx[j + 1]
                 idx == g.idx[str + 1]
             IN  IF idx.i = 0 THEN g
                 ELSE IF g.k >= g.sz THEN [g EXCEPT !.err = TRUE, !.idx[str + 1].i = 0]
                 ELSE [g EXCEPT !.idx[str + 1].i = 0,
                                !.index[g.k + 1] =
                                    [String |-> str, lo |-> idx.lo, len |-> idx.i],
                                !.k = @ + 1]

RECURSIVE makeIndex_loop(_, _, _, _)
makeIndex_loop(T, g, res, i) ==
    IF i >= Len(res) \/ g.brk \/ g.err THEN g
    ELSE makeIndex_loop(T, makeIndex_body(T, g, res, i), res, i + 1)

\* Returns the GSA extended with n, the length of the returned index[:sz].
makeIndex(T, g, res) ==
    IF g.err THEN g @@ [n |-> 0]
    ELSE makeIndex_loop(T, g @@ [k |-> 0], res, 0) @@ [n |-> g.sz]

GsaCore(g) ==
    [src |-> g.src, strIdx |-> g.strIdx, idx |-> g.idx, idxBuf |-> g.idxBuf,
     index |-> g.index]

\* lookupTextOrder, fillIdx, makeIndex: the tail shared by the three queries.
gsaLookup(T, q, g, pattern) ==
    LET res == lookupTextOrder(T, q, pattern)
    IN  IF res.err THEN g @@ [err |-> TRUE, n |-> 0]
        ELSE makeIndex(T, fillIdx(T, g, res.val), res.val)

\* The loop of LookupSuffix / LookupPrefix for the empty pattern; v is the
\* value stored, -1 standing for "the length of the string".
RECURSIVE emptyLoop(_, _, _)
emptyLoop(g, i, v) ==
    IF i >= Len(g.src) \/ g.err THEN g
    ELSE LET e == g.idx[i + 1]
         IN  IF e.hi - e.lo < 1 THEN [g EXCEPT !.err = TRUE]
             ELSE emptyLoop([g EXCEPT !.idxBuf[e.lo + 1] =
                                          IF v = "len" THEN e.hi - e.lo ELSE -1,
                                      !.index[i + 1] =
                                          [String |-> i, lo |-> e.lo, len |-> 1]],
                            i + 1, v)

GSA_LookupTextOrder(T, q, g, prefix) == gsaLookup(T, q, g, prefix)

GSA_LookupSuffix(T, q, g, suf) ==
    IF Len(suf) = 0 THEN emptyLoop(g @@ [err |-> FALSE, n |-> Len(g.index)], 0, "len")
    ELSE gsaLookup(T, q, g, Append(suf, sep))

GSA_LookupPrefix(T, q, g, suf) ==
    IF Len(suf) = 0 THEN emptyLoop(g @@ [err |-> FALSE, n |-> Len(g.index)], 0, "neg")
    ELSE gsaLookup(T, q, g, <<sep>> \o suf)

\* The contents of a returned []Index of length n, read now.
IndexView(g, n) ==
    [k \in 1..n |-> [String |-> g.index[k].String,
                     Occurences |-> SubSeq(g.idxBuf, g.index[k].lo + 1,
                                           g.index[k].lo + g.index[k].len)]]

\* A list whose one text holds both ends of the 31-bit range.
WideSrcs == {<< <<0, MaxInt32>> >>}

\* The lists of texts handed to NewGSA_32.
Srcs ==
    {src \in SeqsUpTo(SeqsUpTo(GSigma, MaxTotal), MaxStrs) : SumLen(src) <= MaxTotal}
        \cup WideSrcs

\* The bytes of the strings handed to NewGSA: a lead byte of a two-byte
\* UTF-8 sequence and a continuation byte (0xC3 0xA9 encodes U+00E9).
Bytes == {195, 169}
Strs == {src \in SeqsUpTo(SeqsUpTo(Bytes, MaxTotal), MaxStrs) : SumLen(src) <= MaxTotal}

\* []int32(s): the UTF-8 decoding of a string of bytes below 0xE0; a byte
\* that starts no valid sequence decodes to U+FFFD and has width 1.
RECURSIVE toRunes(_)
toRunes(b) ==
    IF b = <<>> THEN <<>>
    ELSE IF b[1] < 128 THEN <<b[1]>> \o toRunes(Tail(b))
    ELSE IF b[1] >= 194 /\ b[1] <= 223 /\ Len(b) >= 2 /\ b[2] >= 128 /\ b[2] <= 191
         THEN <<(b[1] - 192) * 64 + (b[2] - 128)>> \o toRunes(Tail(Tail(b)))
    ELSE <<65533>> \o toRunes(Tail(b))

\* utf8.RuneCountInString(s)
RECURSIVE RuneCountInString(_)
RuneCountInString(b) ==
    IF b = <<>> THEN 0
    ELSE IF b[1] >= 194 /\ b[1] <= 223 /\ Len(b) >= 2 /\ b[2] >= 128 /\ b[2] <= 191
         THEN 1 + RuneCountInString(Tail(Tail(b)))
    ELSE 1 + RuneCountInString(Tail(b))

RECURSIVE SumRunes(_)
SumRunes(src) ==
    IF src = <<>> THEN 0 ELSE RuneCountInString(Head(src)) + SumRunes(Tail(src))

\* A constructor that also returns nil when the texts hold no code point.
MakeGSA_nilWithoutRunes(src, sz) ==
    IF sz = 0
    THEN /\ obj' = "nil"
         /\ pc' = "ready"
         /\ gsa' = [NoGSA EXCEPT !.src = src]
         /\ UNCHANGED <<text, buf, stack>>
    ELSE LET g == newGSA_32(src, sz)
         IN  /\ obj' = "gsa"
             /\ text' = g.text
             /\ gsa' = [src |-> src, strIdx |-> g.strIdx, idx |-> g.idx,
                        idxBuf |-> Zeros(sz),
                        index |-> [i \in 1..Len(src) |->
                                      [String |-> 0, lo |-> 0, len |-> 0]]]
             /\ sais(g.text)

\* The body shared by NewGSA and NewGSA_32 once the list is known to be
\* non-empty: newGSA_32(src, sz).
MakeGSA(src, sz) ==
    LET g == newGSA_32(src, sz)
    IN  /\ obj' = "gsa"
        /\ text' = g.text
        /\ gsa' = [src |-> src, strIdx |-> g.strIdx, idx |-> g.idx,
                   idxBuf |-> Zeros(sz),
                   index |-> [i \in 1..Len(src) |->
                                 [String |-> 0, lo |-> 0, len |-> 0]]]
        /\ sais(g.text)

\* NewGSA_32(src)
NewGSA_32 ==
    /\ pc = "idle"
    /\ \E src \in Srcs :
          IF Len(src) = 0
          THEN /\ obj' = "nil"
               /\ pc' = "ready"
               /\ gsa' = [NoGSA EXCEPT !.src = src]
               /\ UNCHANGED <<text, buf, stack>>
          ELSE MakeGSA(src, SumLen(src))
    /\ UNCHANGED <<heap, ret>>

\* NewGSA(src)
NewGSA ==
    /\ pc = "idle"
    /\ \E src \in Strs :
          IF Len(src) = 0
          THEN /\ obj' = "nil"
               /\ pc' = "ready"
               /\ gsa' = [NoGSA EXCEPT !.src = src]
               /\ UNCHANGED <<text, buf, stack>>
          ELSE MakeGSA([i \in 1..Len(src) |-> toRunes(src[i])], SumRunes(src))
    /\ UNCHANGED <<heap, ret>>

GsaReturns(op, arg, g) ==
    /\ gsa' = GsaCore(g)
    /\ ret' = [op |-> op, arg |-> arg, val |-> g.n]
    /\ pc' = IF g.err THEN "panic" ELSE "returned"
    /\ UNCHANGED <<obj, text, buf, stack, heap>>

GSALookupTextOrder ==
    /\ pc = "ready" /\ obj = "gsa"
    /\ \E P \in GPats :
          GsaReturns("GSA.LookupTextOrder", P, GSA_LookupTextOrder(text, buf, gsa, P))

GSALookupSuffix ==
    /\ pc = "ready" /\ obj = "gsa"
    /\ \E S \in GPats :
          GsaReturns("GSA.LookupSuffix", S, GSA_LookupSuffix(text, buf, gsa, S))

GSALookupPrefix ==
    /\ pc = "ready" /\ obj = "gsa"
    /\ \E P \in GPats :
          GsaReturns("GSA.LookupPrefix", P, GSA_LookupPrefix(text, buf, gsa, P))

\* The caller takes the returned value and goes on with the same object.
\* The code points of the texts the scan of _sais is applied to on its own:
\* any int32, a negative one included.
ScanSigma == {-1, 0, 1, MaxInt32}

\* The scan of _sais applied to a text of at least one code point; the
\* result records the flag S after the first step (i = n - 1) as well.
Classify ==
    /\ pc = "idle"
    /\ \E T \in SeqsUpTo(ScanSigma, MaxLen) \ {<<>>} :
          LET f == [n |-> Len(T), tlo |-> -1]
              first == [l |-> 0, S |-> FALSE, numLMS |-> 0,
                        minChar |-> T[1], maxChar |-> T[1]]
          IN  /\ text' = T
              /\ ret' = [op |-> "scan", arg |-> T,
                         val |-> [S1 |-> scanStep(first, T[Len(T)]).S] @@ scan(T, f, <<>>)]
    /\ pc' = "returned"
    /\ UNCHANGED <<obj, buf, stack, heap, gsa>>

Resume ==
    /\ pc = "returned"
    /\ pc' = "ready"
    /\ ret' = NoRet
    /\ UNCHANGED <<obj, text, buf, stack, heap, gsa>>

SAQuery == Lookup \/ LookupTextOrder \/ LookupSuffix \/ LookupPrefix
GSAQuery == GSALookupTextOrder \/ GSALookupSuffix \/ GSALookupPrefix

Next == New \/ NewGSA \/ NewGSA_32 \/ Build \/ SAQuery \/ GSAQuery \/ Resume

\* The whole package.
Spec == Init /\ [][Next]_vars

\* Construction of one suffix array.
NextBuild == New \/ Build
SpecBuild == Init /\ [][NextBuild]_vars

\* One SuffixArray and its queries.
NextSA == New \/ Build \/ SAQuery \/ Resume
SpecSA == Init /\ [][NextSA]_vars

\* One GSA and its queries.
NextScan == Classify
SpecScan == Init /\ [][NextScan]_vars

NextGSA == NewGSA \/ NewGSA_32 \/ Build \/ GSAQuery \/ Resume
SpecGSA == Init /\ [][NextGSA]_vars

(***************************************************************************)
(* Reference notions the claims are stated with.                           *)
(***************************************************************************)
Suffix(T, i) == SubSeq(T, i + 1, Len(T))

RECURSIVE SeqLess(_, _)
SeqLess(a, b) ==
    IF b = <<>> THEN FALSE
    ELSE IF a = <<>> THEN TRUE
    ELSE IF a[1] # b[1] THEN a[1] < b[1]
    ELSE SeqLess(Tail(a), Tail(b))

IsPerm(q, n) == Len(q) = n /\ \A v \in 0..(n - 1) : \E i \in 1..n : q[i] = v

Sorted(T, q) ==
    \A i \in 1..(Len(q) - 1) : SeqLess(Suffix(T, q[i]), Suffix(T, q[i + 1]))

\* The positions of T at which P occurs.
Occ(T, P) ==
    {i \in 0..(Len(T) - 1) : i + Len(P) <= Len(T) /\ SubSeq(T, i + 1, i + Len(P)) = P}

\* The suffix at i cut to the length of P, and its comparison with P.
Trunc(T, i, P) ==
    SubSeq(T, i + 1, IF i + Len(P) <= Len(T) THEN i + Len(P) ELSE Len(T))
SufGE(T, i, P) == ~SeqLess(Trunc(T, i, P), P)
SufGT(T, i, P) == SeqLess(P, Trunc(T, i, P))

\* The first index of q whose entry satisfies Pr, Len(q) if there is none.
FirstIx(q, Pr(_)) ==
    CHOOSE l \in 0..Len(q) :
        /\ l = Len(q) \/ Pr(q[l + 1])
        /\ \A k \in 1..l : ~Pr(q[k])

Elems(q) == {q[k] : k \in 1..Len(q)}
Ascending(q) == \A k \in 1..(Len(q) - 1) : q[k] < q[k + 1]

\* The elements of a set of integers in ascending order.
RECURSIVE AscSeq(_)
AscSeq(S) ==
    IF S = {} THEN <<>>
    ELSE LET m == CHOOSE x \in S : \A y \in S : x <= y
         IN  <<m>> \o AscSeq(S \ {m})

EndsWith(T, S) ==
    Len(S) <= Len(T) /\ SubSeq(T, Len(T) - Len(S) + 1, Len(T)) = S

SepFree(q) == \A k \in 1..Len(q) : q[k] # sep

\* One entry per string i..m-1 of src with an occurrence of P: the string id
\* and the occurrences of P in that string alone, ascending.
RECURSIVE GroupFrom(_, _, _)
GroupFrom(src, P, i) ==
    IF i >= Len(src) THEN <<>>
    ELSE LET o == Occ(src[i + 1], P)
         IN  (IF o = {} THEN <<>>
              ELSE <<[String |-> i, Occurences |-> AscSeq(o)]>>)
             \o GroupFrom(src, P, i + 1)

\* One entry per string i..m-1 of src that ends with S.
RECURSIVE EndsFrom(_, _, _)
EndsFrom(src, S, i) ==
    IF i >= Len(src) THEN <<>>
    ELSE (IF EndsWith(src[i + 1], S)
          THEN <<[String |-> i, Occurences |-> <<Len(src[i + 1]) - Len(S)>>]>>
          ELSE <<>>)
         \o EndsFrom(src, S, i + 1)

(***************************************************************************)
(* Construction claims, checked under SpecBuild.                           *)
(***************************************************************************)
\* C1: whenever sais(T) returns, for a text T of length n >= 0, the result
\* has length n and each of 0..n-1 occurs in it (so exactly once); it is the
\* empty sequence for n = 0 and <<0>> for n = 1.  That the call returns at
\* all is the subject of C3.
C1_Permutation ==
    (pc = "ready" /\ obj = "sa") =>
        /\ IsPerm(buf, Len(text))
        /\ (Len(text) = 0 => buf = <<>>)
        /\ (Len(text) = 1 => buf = <<0>>)

\* A text of several code points on the arbitrary-alphabet path was built,
\* and the result is not the identity.
C1_Witness ==
    /\ pc = "ready" /\ obj = "sa"
    /\ Len(text) >= 4
    /\ \E k \in 1..Len(text) : text[k] = MaxInt32
    /\ buf[1] # 0

\* C2: the array sais(T) returns is in strict lexicographic suffix order
\* (a suffix that is a proper prefix of another is the smaller one), that
\* is, it is the naive sort of 0..n-1 by suffix comparison, on both
\* construction paths and when the recursion on the reduced text is taken.
C2_LexOrder ==
    (pc = "ready" /\ obj = "sa") =>
        /\ Sorted(text, buf)
        /\ \A i \in 1..Len(buf) :
              buf[i] \in 0..(Len(text) - 1) /\
              Cardinality({j \in 0..(Len(text) - 1) :
                              SeqLess(Suffix(text, j), Suffix(text, buf[i]))}) = i - 1

\* The LMS substrings of 2 1 2 1 2 1 2 repeat, so the reduced text was
\* sorted by the recursive call.
C2_Witness ==
    /\ pc = "ready" /\ obj = "sa"
    /\ text = <<2, 1, 2, 1, 2, 1, 2>>
    /\ buf = <<5, 3, 1, 6, 4, 2, 0>>

\* C3: sais(T) cannot fail for a text whose code points lie in 0..2^31-1:
\* no out-of-range index, no negative slice bound, no negative allocation
\* size, at any recursion level.
C3_NeverFails ==
    (obj = "sa" /\ \A k \in 1..Len(text) : text[k] \in 0..MaxInt32) => pc # "panic"

(***************************************************************************)
(* SuffixArray query claims, checked under SpecSA.                         *)
(***************************************************************************)
\* C4: Lookup(P) returns normally the run SA[l..r), l the first index whose
\* suffix compares >= P and r the first whose suffix compares > P; its
\* entries are exactly the positions where P occurs in T, each once; an
\* empty P gives the whole SA and an empty text an empty result.
C4_Lookup ==
    (obj = "sa" /\ ret.op = "Lookup") =>
        LET P == ret.arg
            l == FirstIx(buf, LAMBDA i : SufGE(text, i, P))
            r == FirstIx(buf, LAMBDA i : SufGT(text, i, P))
        IN  /\ pc = "returned"
            /\ ret.val = SubSeq(buf, l + 1, r)
            /\ Elems(ret.val) = Occ(text, P)
            /\ Len(ret.val) = Cardinality(Occ(text, P))
            /\ (P = <<>> => ret.val = buf)
            /\ (text = <<>> => ret.val = <<>>)

\* A non-empty pattern was found at several positions, which the result
\* lists in suffix order and not in text order.
C4_Witness ==
    /\ pc = "returned" /\ ret.op = "Lookup"
    /\ ret.arg # <<>>
    /\ Len(ret.val) >= 2
    /\ ret.val[1] > ret.val[2]

\* C5: LookupTextOrder(P) returns normally exactly the positions where P
\* occurs in T, each once, in ascending order.
C5_LookupTextOrder ==
    (obj = "sa" /\ ret.op = "LookupTextOrder") =>
        /\ pc = "returned"
        /\ Elems(ret.val) = Occ(text, ret.arg)
        /\ Ascending(ret.val)

\* A non-empty pattern was found at several positions whose suffix order
\* is not the text order.
C5_Witness ==
    /\ pc = "returned" /\ ret.op = "LookupTextOrder"
    /\ ret.arg # <<>>
    /\ Len(ret.val) >= 2
    /\ lookupSlice(text, buf, ret.arg) # ret.val

\* C6: LookupSuffix(S) returns |T| when S is empty (also for an empty T),
\* -1 when T is empty or |S| > |T|, |T| - |S| when the last |S| code points
\* of T are S, and -1 otherwise.
C6_LookupSuffix ==
    (obj = "sa" /\ ret.op = "LookupSuffix") =>
        LET S == ret.arg
        IN  /\ pc = "returned"
            /\ ret.val = IF S = <<>> THEN Len(text)
                          ELSE IF EndsWith(text, S) THEN Len(text) - Len(S)
                          ELSE -1

\* A non-empty S was found at the end of a longer text.
C6_Witness ==
    /\ pc = "returned" /\ ret.op = "LookupSuffix"
    /\ ret.arg # <<>>
    /\ ret.val >= 1

\* C7: LookupPrefix(P) returns -1 when P is empty (also for an empty T), -2
\* when T is empty or |P| > |T|, 0 when the first |P| code points of T are
\* P, and -2 otherwise.
C7_LookupPrefix ==
    (obj = "sa" /\ ret.op = "LookupPrefix") =>
        LET P == ret.arg
        IN  /\ pc = "returned"
            /\ ret.val = IF P = <<>> THEN -1
                          ELSE IF Len(P) <= Len(text) /\ SubSeq(text, 1, Len(P)) = P THEN 0
                          ELSE -2

\* A pattern of two code points was found at the start of the text.
C7_Witness ==
    /\ pc = "returned" /\ ret.op = "LookupPrefix"
    /\ Len(ret.arg) = 2
    /\ ret.val = 0

(***************************************************************************)
(* GSA query claims, checked under SpecGSA.  The texts handed to           *)
(* NewGSA_32 never contain the separator.                                  *)
(***************************************************************************)
\* C8: for a non-empty list of separator-free texts and a pattern P,
\* GSA.LookupTextOrder(P) returns the per-string grouping of the single-text
\* lookups: one entry per string in which P occurs, in ascending string
\* order, holding the occurrences of P in that string, ascending.  (Stated
\* here for the patterns that do not contain the separator.)
C8_Grouping ==
    (obj = "gsa" /\ ret.op = "GSA.LookupTextOrder" /\ SepFree(ret.arg)) =>
        /\ pc = "returned"
        /\ IndexView(gsa, ret.val) = GroupFrom(gsa.src, ret.arg, 0)

\* C9: for a non-empty S, GSA.LookupSuffix(S) returns exactly one entry
\* {i, <<|T_i| - |S|>>} for each string T_i that ends with S, in ascending
\* i, and no entry for any other string.
C9_TerminalOnly ==
    (obj = "gsa" /\ ret.op = "GSA.LookupSuffix" /\ ret.arg # <<>>) =>
        /\ pc = "returned"
        /\ IndexView(gsa, ret.val) = EndsFrom(gsa.src, ret.arg, 0)

\* C10: GSA.LookupSuffix of the empty pattern returns normally m entries,
\* the i-th being {i, <<len(T_i)>>}, for texts of any length, 0 included.
C10_EmptySuffix ==
    (obj = "gsa" /\ ret.op = "GSA.LookupSuffix" /\ ret.arg = <<>>) =>
        /\ pc = "returned"
        /\ IndexView(gsa, ret.val) =
              [k \in 1..Len(gsa.src) |->
                  [String |-> k - 1, Occurences |-> <<Len(gsa.src[k])>>]]


StartsWith(T, P) == Len(P) <= Len(T) /\ SubSeq(T, 1, Len(P)) = P

\* One entry {i, <<0>>} per string i..m-1 of src that starts with P.
RECURSIVE StartsFrom(_, _, _)
StartsFrom(src, P, i) ==
    IF i >= Len(src) THEN <<>>
    ELSE (IF StartsWith(src[i + 1], P)
          THEN <<[String |-> i, Occurences |-> <<0>>]>>
          ELSE <<>>)
         \o StartsFrom(src, P, i + 1)

\* C11: for a non-empty P, GSA.LookupPrefix(P) returns exactly one entry
\* {i, <<0>>} for each string T_i that starts with P, in ascending i, and
\* no entry for any other string.
C11_InitialOnly ==
    (obj = "gsa" /\ ret.op = "GSA.LookupPrefix" /\ ret.arg # <<>>) =>
        /\ pc = "returned"
        /\ IndexView(gsa, ret.val) = StartsFrom(gsa.src, ret.arg, 0)

\* C12: GSA.LookupPrefix of the empty pattern returns normally m entries,
\* the i-th being {i, <<-1>>}, for texts of any length, 0 included.
C12_EmptyPrefix ==
    (obj = "gsa" /\ ret.op = "GSA.LookupPrefix" /\ ret.arg = <<>>) =>
        /\ pc = "returned"
        /\ IndexView(gsa, ret.val) =
              [k \in 1..Len(gsa.src) |-> [String |-> k - 1, Occurences |-> <<-1>>]]


\* The outcome of the pass the innermost call is about to run on the
\* arbitrary-alphabet path, when the range loop visits the map in the order
\* ord and linearCount returns lc.
ArbPass(ord, lc) ==
    LET f == Ranged(Top, ord, lc)
        s == Pass0(Top)
    IN  CASE Top.step = "makeBucketsMap" -> makeBucketsMap(text, f, s)
          [] Top.step = "insertLMS" -> insertLMS_arb(text, f, s)
          [] Top.step = "induceSubL" -> induceSubL_arb(text, f, s)
          [] Top.step = "induceSubS" -> induceSubS_arb(text, f, s)
          [] Top.step = "expand" -> expand_arb(text, f, s)
          [] Top.step = "induceL" -> induceL_arb(text, f, s)
          [] Top.step = "induceS" -> induceS_arb(text, f, s)
          [] OTHER -> s

\* C13: construction is deterministic: at every point of a run on the
\* arbitrary-alphabet path the next pass has one outcome (array, scratch
\* and bucket map), whatever order the bucket map is iterated in and
\* whatever estimate linearCount produced; every other step is a function
\* of the state, so two runs on equal texts return identical arrays.
C13_Deterministic ==
    (pc = "building" /\ stack # <<>> /\ Top.path = "arb") =>
        LET one == ArbPass(CHOOSE o \in Orders(Top.bm) : TRUE,
                           CHOOSE e \in Estimates(Top.n) : TRUE)
        IN  \A o \in Orders(Top.bm) : \A e \in Estimates(Top.n) : ArbPass(o, e) = one

\* The final induceL_arb has run on a map of three buckets, which its range
\* loop could visit in six orders, and induceS_arb is about to.
C13_Witness ==
    /\ pc = "building" /\ stack # <<>>
    /\ Top.path = "arb" /\ Top.step = "induceS"
    /\ Len(Top.bm) = 3
    /\ Cardinality(Orders(Top.bm)) = 6


\* The text of the k-th active call: the input of the outermost call, the
\* reduced text kept in the tail of the caller's sa for a deeper one.
TextAt(st, b, t, k) ==
    IF st[k].tlo < 0 THEN t ELSE SubSeq(b, st[k].tlo + 1, st[k].tlo + st[k].n)

\* C14: the text is never written during construction: for every active
\* call of _sais, at every recursion level, every step taken between its
\* entry and its return leaves the contents of its text as they were.
C14_TextUnchanged ==
    [][\A k \in 1..Len(stack) :
          (k <= Len(stack') /\ pc = "building") =>
              TextAt(stack', buf', text', k) = TextAt(stack, buf, text, k)]_vars

\* A recursive call has run all its passes on a reduced text that still
\* lies in the tail of the caller's sa.
C14_Witness ==
    /\ pc = "building" /\ Len(stack) = 2
    /\ Top.step = "return"
    /\ TextAt(stack, buf, text, 2) # Zeros(Top.n)
    /\ \E i \in 1..Top.n : buf[i] # 0

\* C15: NewGSA and NewGSA_32 return nil exactly when the list they are given
\* holds no text; for every non-empty list, one of empty texts only included,
\* a GSA is returned: it is under construction or built, and the
\* construction does not fail.
C15_NilIffEmpty ==
    /\ obj = "nil" => (gsa.src = <<>> /\ pc = "ready")
    /\ obj = "gsa" => (gsa.src # <<>> /\ (ret.op = "none" => pc # "panic"))

\* A GSA of two empty texts has been returned.
C15_Witness ==
    obj = "gsa" /\ pc = "ready" /\ ret.op = "none" /\ gsa.src = << <<>>, <<>> >>

(***************************************************************************)
(* The reference two-pass classifier: types from right to left, then LMS   *)
(* positions.                                                              *)
(***************************************************************************)
RECURSIVE IsS(_, _)
IsS(T, i) ==
    IF i >= Len(T) - 1 THEN FALSE
    ELSE T[i + 1] < T[i + 2] \/ (T[i + 1] = T[i + 2] /\ IsS(T, i + 1))

IsLMS(T, i) == i >= 1 /\ i < Len(T) /\ IsS(T, i) /\ ~IsS(T, i - 1)

LMSOf(T) == {i \in 0..Len(T) - 1 : IsLMS(T, i)}

MinOf(T) == CHOOSE c \in Elems(T) : \A d \in Elems(T) : c <= d
MaxOf(T) == CHOOSE c \in Elems(T) : \A d \in Elems(T) : c >= d

ScanAgrees ==
    /\ ret.val.minChar = MinOf(ret.arg)
    /\ ret.val.maxChar = MaxOf(ret.arg)
    /\ ret.val.numLMS = Cardinality(LMSOf(ret.arg))
    /\ ~ret.val.S1

\* C16 as stated: for every text of int32 code points with n >= 2 the scan
\* of _sais returns the minimum, the maximum and the LMS count of the
\* reference classifier, and its S flag is false after the step for n - 1.
C16_ScanAnyInt32 ==
    (ret.op = "scan" /\ Len(ret.arg) >= 2) => ScanAgrees

\* C16, amended: the same for every text of non-negative code points.
C16_Scan ==
    (ret.op = "scan" /\ Len(ret.arg) >= 2 /\ \A c \in Elems(ret.arg) : c >= 0)
        => ScanAgrees

\* A text of non-negative code points with two LMS positions was scanned.
C16_Witness ==
    /\ ret.op = "scan" /\ Len(ret.arg) >= 2
    /\ \A c \in Elems(ret.arg) : c >= 0
    /\ ret.val.numLMS = 2
    /\ ret.val.maxChar = MaxInt32

\* maxChar - minChar + 1 > m, computed without leaving 32 bits (m >= 1).
WiderThan(sc, m) == sc.maxChar - m >= sc.minChar

\* C17: at every recursion level the call of _sais takes the
\* arbitrary-alphabet path exactly when maxChar - minChar + 1 exceeds 256 or
\* srcAlphaSize, also when that size does not fit int32; on the
\* small-alphabet path 1 <= currAlphaSize <= min(256, srcAlphaSize), and once
\* data is allocated the slices data[0..currAlphaSize) and
\* data[srcAlphaSize..srcAlphaSize+currAlphaSize) lie inside it and do not
\* overlap.
C17_Dispatch ==
    (pc = "building" /\ stack # <<>> /\ Top.step # "_sais") =>
        LET sc == scan(text, Top, buf)
            wide == \/ WiderThan(sc, SmallAlpha)
                    \/ ~Top.nilsa /\ WiderThan(sc, Top.src)
        IN  /\ Top.path = (IF wide THEN "arb" ELSE "small")
            /\ Top.path = "small" =>
                  /\ 1 <= Top.curr /\ Top.curr <= SmallAlpha /\ Top.curr <= Top.src
                  /\ Top.step # "frequency" =>
                        Top.src + Top.curr <= Len(heap[Top.dref])

(***************************************************************************)
(* The loops of the sub-inductions, walked one entry at a time from the    *)
(* state the innermost call is in.                                         *)
(***************************************************************************)
SubStart(T, f, s0) ==
    CASE f.step = "induceSubL" /\ f.path = "small" ->
             seedL(T, f, [s0 EXCEPT !.data = bucketStart(@, f)])
      [] f.step = "induceSubL" /\ f.path = "arb" -> induceSubL_arb_seed(T, f, s0)
      [] f.step = "induceSubS" /\ f.path = "small" ->
             [s0 EXCEPT !.data = bucketEnd(@, f)] @@ [top |-> f.n]
      [] f.step = "induceSubS" /\ f.path = "arb" -> s0 @@ [top |-> f.n]

SubBody(T, f, s, i) ==
    CASE f.step = "induceSubL" /\ f.path = "small" -> induceSubL_body(T, f, s, i)
      [] f.step = "induceSubL" /\ f.path = "arb" -> induceSubL_arb_body(T, f, s, i)
      [] f.step = "induceSubS" /\ f.path = "small" -> induceSubS_body(T, f, s, i)
      [] f.step = "induceSubS" /\ f.path = "arb" -> induceSubS_arb_body(T, f, s, i)

\* The positive entries the loop consumes from index i on, and whether it
\* runs to its end.
RECURSIVE Consumed(_, _, _, _)
Consumed(T, f, s, i) ==
    IF i < 0 \/ i >= f.n \/ s.err THEN {}
    ELSE (IF s.buf[i + 1] > 0 THEN {s.buf[i + 1]} ELSE {})
         \cup Consumed(T, f, SubBody(T, f, s, i),
                       IF f.step = "induceSubL" THEN i + 1 ELSE i - 1)

RECURSIVE Completes(_, _, _, _)
Completes(T, f, s, i) ==
    IF s.err THEN FALSE
    ELSE IF i < 0 \/ i >= f.n THEN TRUE
    ELSE Completes(T, f, SubBody(T, f, s, i),
                   IF f.step = "induceSubL" THEN i + 1 ELSE i - 1)

SubFrom(f) == IF f.step = "induceSubL" THEN 0 ELSE f.n - 1

\* The outcome of the final induction the innermost call is about to run.
FinalPass ==
    LET f == Ranged(Top, CHOOSE o \in Orders(Top.bm) : TRUE, 0)
    IN  CASE Top.step = "induceL" /\ Top.path = "small" -> induceL(text, f, Pass0(Top))
          [] Top.step = "induceL" /\ Top.path = "arb" -> induceL_arb(text, f, Pass0(Top))
          [] Top.step = "induceS" /\ Top.path = "small" -> induceS(text, f, Pass0(Top))
          [] Top.step = "induceS" /\ Top.path = "arb" -> induceS_arb(text, f, Pass0(Top))

\* C18: the sub-inductions run only when numLMS > 1, and every positive
\* entry j they consume from SA is at least 2, so that k = j - 1 >= 1,
\* text[k-1] is read inside the text and neither 0 is negated nor position 0
\* written; the final inductions read text[k-1] only for k >= 1 and so
\* negate only such k: none of the four loops leaves the text.
C18_NoZeroPosition ==
    (pc = "building" /\ stack # <<>>) =>
        /\ Top.step \in {"induceSubL", "induceSubS"} =>
              LET s1 == SubStart(text, Top, Pass0(Top))
              IN  /\ Top.numLMS > 1
                  /\ \A j \in Consumed(text, Top, s1, SubFrom(Top)) : j >= 2
                  /\ Completes(text, Top, s1, SubFrom(Top))
        /\ Top.step \in {"induceL", "induceS"} => ~FinalPass.err

\* induceSubS is about to run on the arbitrary-alphabet path and will consume
\* the entry 2, the smallest the claim allows.
C18_Witness ==
    /\ pc = "building" /\ stack # <<>>
    /\ Top.step = "induceSubS" /\ Top.path = "arb"
    /\ 2 \in Consumed(text, Top, SubStart(text, Top, Pass0(Top)), SubFrom(Top))

NoNegative == \A i \in 1..Len(buf) : buf[i] >= 0

\* C19 as stated: after every pass of a construction, the final induceL
\* included, SA contains no negative value.
C19_NoNegative ==
    (pc \in {"building", "ready"} /\ obj \in {"sa", "gsa"}) => NoNegative

\* C19, amended: after every pass of a construction except the final induceL
\* (and induceL_arb), SA contains no negative value; the entries induceL
\* leaves negated are restored by the induceS that follows it.
C19_NoNegativeButInduceL ==
    (/\ pc \in {"building", "ready"} /\ obj \in {"sa", "gsa"}
     /\ ~(stack # <<>> /\ Top.step = "induceS")) => NoNegative

\* The final induceS has run over an array in which the final induceL had
\* left a negated entry, at the second recursion level.
C19_Witness ==
    /\ pc = "building" /\ Len(stack) = 2 /\ Top.step = "return"
    /\ NoNegative
    /\ Txt(text, Top, buf, Top.n - 2) < Txt(text, Top, buf, Top.n - 1)

(***************************************************************************)
(* The order of LMS substrings: the substring of an LMS position p runs to *)
(* the next LMS position, or to the end of the text; two of them are       *)
(* compared code point by code point, an L-type position before an S-type  *)
(* one where the code points agree, and the end of the text before         *)
(* everything.                                                             *)
(***************************************************************************)
RECURSIVE LMSLeqFrom(_, _, _, _)
LMSLeqFrom(T, p, q, d) ==
    LET a == p + d
        b == q + d
    IN  IF a >= Len(T) THEN TRUE
        ELSE IF b >= Len(T) THEN FALSE
        ELSE IF T[a + 1] # T[b + 1] THEN T[a + 1] < T[b + 1]
        ELSE IF IsS(T, a) # IsS(T, b) THEN IsS(T, b)
        ELSE IF d > 0 /\ IsLMS(T, a) /\ IsLMS(T, b) THEN TRUE
        ELSE LMSLeqFrom(T, p, q, d + 1)

LMSLeq(T, p, q) == LMSLeqFrom(T, p, q, 0)

\* The LMS substring of the LMS position p: from p up to and including the
\* next LMS position, or the final position for the last one.
LMSSub(T, p) ==
    LET later == {q \in LMSOf(T) : q > p}
        last == IF later = {} THEN Len(T) - 1
                ELSE CHOOSE q \in later : \A r \in later : q <= r
    IN  SubSeq(T, p + 1, last + 1)

\* The top numLMS slots of SA hold the LMS positions, each once, the slots
\* below hold 0, and Leq relates every two neighbours of the top slots.
LMSAtTop(Leq(_, _, _)) ==
    LET T == TextAt(stack, buf, text, Len(stack))
        n == Top.n
        m == Top.numLMS
    IN  /\ m > 1
        /\ m = Cardinality(LMSOf(T))
        /\ \A i \in 0..(n - m - 1) : buf[i + 1] = 0
        /\ {buf[i + 1] : i \in (n - m)..(n - 1)} = LMSOf(T)
        /\ \A i \in (n - m)..(n - 2) : Leq(T, buf[i + 1], buf[i + 2])

\* C20 as stated: when insertLMS, induceSubL and induceSubS have run
\* (numLMS > 1), the top numLMS slots of SA hold every LMS position of the
\* text exactly once, the leftmost one included, in non-decreasing
\* (lexicographic) order of their LMS substrings, and every slot below is 0.
C20_LexSorted ==
    (pc = "building" /\ stack # <<>> /\ Top.step = "summarise") =>
        LMSAtTop(LAMBDA T, p, q : ~SeqLess(LMSSub(T, q), LMSSub(T, p)))

\* C20, amended: the same with the order in which two LMS substrings are
\* compared code point by code point, an L-type position before an S-type
\* one where the code points agree and the end of the text before
\* everything.
C20_SortedLMS ==
    (pc = "building" /\ stack # <<>> /\ Top.step = "summarise") =>
        LMSAtTop(LMSLeq)

\* The sub-inductions have sorted three LMS positions, two of them with
\* different LMS substrings that start with the same code point and placed
\* against their text order.
C20_Witness ==
    /\ pc = "building" /\ stack # <<>> /\ Top.step = "summarise"
    /\ Top.numLMS = 3
    /\ \E i \in (Top.n - 3)..(Top.n - 2) :
          /\ buf[i + 1] > buf[i + 2]
          /\ text[buf[i + 1] + 1] = text[buf[i + 2] + 1]
          /\ ~LMSLeq(text, buf[i + 2], buf[i + 1])

(***************************************************************************)
(* Summarization claims, checked under SpecBuild from the states in which  *)
(* summarise is about to run.                                              *)
(***************************************************************************)
AtSummarise == pc = "building" /\ stack # <<>> /\ Top.step = "summarise"

TopText == TextAt(stack, buf, text, Len(stack))

\* The slots p/2 of the LMS positions are distinct and below the summary.
HalfSlotsFree(T, n, m) ==
    /\ \A p \in LMSOf(T) : \A q \in LMSOf(T) : p # q => p \div 2 # q \div 2
    /\ \A p \in LMSOf(T) : p \div 2 < n - m

\* The distance from the LMS position p to the next one, n - p for the last.
LMSGap(T, p) ==
    LET later == {q \in LMSOf(T) : q > p}
    IN  IF later = {} THEN Len(T) - p
        ELSE (CHOOSE q \in later : \A r \in later : q <= r) - p

\* C21 as stated: lengthLMS writes into sa[p/2], for every LMS position p,
\* the length of the LMS substring starting at p, which runs up to and
\* including the next LMS position (through n-1 for the last one); the slots
\* p/2 are distinct and lie below n - numLMS.
C21_LengthInclusive ==
    AtSummarise =>
        LET s == lengthLMS(text, Top, Pass0(Top))
        IN  /\ \A p \in LMSOf(TopText) : s.buf[(p \div 2) + 1] = Len(LMSSub(TopText, p))
            /\ HalfSlotsFree(TopText, Top.n, Top.numLMS)

\* C21, amended: lengthLMS writes into sa[p/2] the distance from p to the
\* next LMS position, that position not counted, and n - p for the last LMS
\* position; the slots p/2 are distinct and lie below n - numLMS.
C21_LengthToNext ==
    AtSummarise =>
        LET s == lengthLMS(text, Top, Pass0(Top))
        IN  /\ \A p \in LMSOf(TopText) : s.buf[(p \div 2) + 1] = LMSGap(TopText, p)
            /\ HalfSlotsFree(TopText, Top.n, Top.numLMS)

\* summarise is about to run on a text with a first LMS substring of four
\* code points, for which lengthLMS writes 3.
C21_Witness ==
    /\ AtSummarise
    /\ \E p \in LMSOf(TopText) :
          /\ Len(LMSSub(TopText, p)) = 4
          /\ \E q \in LMSOf(TopText) : q > p
          /\ lengthLMS(text, Top, Pass0(Top)).buf[(p \div 2) + 1] = 3

\* The name summarise left for the LMS position p in the summary, which is
\* in text order, and the LMS positions in the order the sub-inductions left.
NameOf(s, p) == s.buf[SumIx(Top, Cardinality({q \in LMSOf(TopText) : q < p}))]

SortedLMS == [i \in 1..Top.numLMS |-> buf[Top.n - Top.numLMS + i]]

\* The summary holds the reduced text for the equality Eq of LMS substrings.
Reduced(s, Eq(_, _, _)) ==
    /\ ~s.err
    /\ {NameOf(s, p) : p \in LMSOf(TopText)} = 1..s.maxName
    /\ \A p \in LMSOf(TopText) : \A q \in LMSOf(TopText) :
          Eq(TopText, p, q) => NameOf(s, p) = NameOf(s, q)
    /\ \A i \in 1..(Top.numLMS - 1) :
          NameOf(s, SortedLMS[i]) <= NameOf(s, SortedLMS[i + 1])
    /\ \A i \in 1..(Top.n - Top.numLMS) : s.buf[i] = 0

\* C22 as stated: after summarise, for every text with numLMS > 1, the
\* summary holds for the j-th LMS position in text order its name, the names
\* are exactly 1..maxName, the returned value, equal LMS substrings have
\* equal names, names do not decrease along the sorted order, and every
\* slot of sa outside the summary is 0.
C22_ReducedText ==
    AtSummarise =>
        Reduced(summarise(text, Top, Pass0(Top)),
                LAMBDA T, p, q : LMSSub(T, p) = LMSSub(T, q))

\* C22, amended: that holds when summarise returns maxName < numLMS, for
\* LMS substrings equal in the SA-IS comparison (the one that ends the text
\* equals no other); when all names are distinct summarise returns early,
\* the summary still holds the sorted LMS positions and the i-th of them has
\* its name i in sa[p/2].
C22_ReducedWhenRepeated ==
    AtSummarise =>
        LET s == summarise(text, Top, Pass0(Top))
        IN  IF s.maxName < Top.numLMS
            THEN Reduced(s, LAMBDA T, p, q : LMSLeq(T, p, q) /\ LMSLeq(T, q, p))
            ELSE /\ ~s.err
                 /\ s.maxName = Top.numLMS
                 /\ \A i \in 1..Top.numLMS :
                       /\ s.buf[Top.n - Top.numLMS + i] = SortedLMS[i]
                       /\ s.buf[(SortedLMS[i] \div 2) + 1] = i

\* summarise is about to name three LMS substrings, two of them equal.
C22_Witness ==
    /\ AtSummarise /\ Top.numLMS = 3
    /\ summarise(text, Top, Pass0(Top)).maxName = 2
    /\ \E p \in LMSOf(TopText) : \E q \in LMSOf(TopText) :
          p # q /\ LMSLeq(TopText, p, q) /\ LMSLeq(TopText, q, p)

(***************************************************************************)
(* Placement of the sorted LMS suffixes by expand.                         *)
(***************************************************************************)
\* The first and the last slot of the bucket of code point c in the text T.
BktFirst(T, c) == Cardinality({i \in 1..Len(T) : T[i] < c})
BktLast(T, c) == Cardinality({i \in 1..Len(T) : T[i] <= c}) - 1

\* The slot expand writes at step i, from the loop state s.
ExpandSlot(T, f, s, i) ==
    LET c == Txt(T, f, s.buf, s.buf[i + 1])
    IN  IF f.path = "small" THEN Bkt(s, f, c) ELSE BmGet(s.bm, c).end

\* Every write of the loop of expand, from step i down, is at a slot b >= i.
RECURSIVE ExpandAbove(_, _, _, _)
ExpandAbove(T, f, s, i) ==
    IF i < 0 THEN TRUE
    ELSE /\ ~s.err
         /\ InText(f, s.buf[i + 1])
         /\ ExpandSlot(T, f, s, i) >= i
         /\ ExpandAbove(T, f,
                        IF f.path = "small" THEN expand_body(T, f, s, i)
                        ELSE expand_arb_body(T, f, s, i),
                        i - 1)

ExpandStart(T, f, s0) ==
    IF f.path = "small"
    THEN [s0 EXCEPT !.data = bucketEnd(frequency(T, f, s0.buf, @), f)]
    ELSE s0

\* C23: after unmap or the direct copy and then expand or expand_arb, every
\* LMS position of the text is in SA exactly once, in the bucket of its
\* first code point, the LMS positions of a bucket packed at its tail in
\* increasing order of their suffixes, and every other slot is 0; no write
\* of expand lands below the entry of summarySA it has just read (b >= i).
C23_Expanded ==
    (pc = "building" /\ stack # <<>> /\ Top.numLMS > 1) =>
        /\ Top.step = "expand" =>
              ExpandAbove(text, Top, ExpandStart(text, Top, Pass0(Top)), Top.numLMS - 1)
        /\ Top.step = "induceL" =>
              LET T == TopText
                  used == {i \in 0..(Top.n - 1) : buf[i + 1] # 0}
              IN  /\ Cardinality(used) = Top.numLMS
                  /\ {buf[i + 1] : i \in used} = LMSOf(T)
                  /\ \A i \in used :
                        LET c == T[buf[i + 1] + 1]
                        IN  /\ BktFirst(T, c) <= i /\ i <= BktLast(T, c)
                            /\ \A k \in i..BktLast(T, c) : k \in used
                  /\ \A i \in used : \A k \in used :
                        i < k => SeqLess(Suffix(T, buf[i + 1]), Suffix(T, buf[k + 1]))

\* expand has placed three LMS positions after a recursion, two of them in
\* one bucket that they do not fill.
C23_Witness ==
    /\ pc = "building" /\ Len(stack) = 1 /\ Top.step = "induceL"
    /\ Top.numLMS = 3 /\ Top.maxName < 3
    /\ \E i \in 1..(Top.n - 2) :
          /\ buf[i] = 0 /\ buf[i + 1] # 0 /\ buf[i + 2] # 0
          /\ text[buf[i + 1] + 1] = text[buf[i + 2] + 1]
          /\ text[i] = text[buf[i + 1] + 1]

\* The buckets of the map bm of a call on the text T are at their extremes.
Canonical(T, bm) ==
    /\ {bm[k].ch : k \in 1..Len(bm)} = Elems(T)
    /\ \A k \in 1..Len(bm) :
          /\ bm[k].size = Cardinality({i \in 1..Len(T) : T[i] = bm[k].ch})
          /\ bm[k].start = BktFirst(T, bm[k].ch)
          /\ bm[k].end = bm[k].start + bm[k].size - 1

\* C24: on the arbitrary-alphabet path, after every pass (insertLMS_arb,
\* induceSubL_arb, induceSubS_arb, expand_arb, induceL_arb, induceS_arb)
\* every bucket of the map has start equal to the number of text positions
\* with a smaller code point and end = start + size - 1.
C24_CursorsReset ==
    pc = "building" =>
        \A k \in 1..Len(stack) :
            (stack[k].path = "arb" /\ stack[k].step \notin {"_sais", "makeBucketsMap"})
                => Canonical(TextAt(stack, buf, text, k), stack[k].bm)

\* induceSubL_arb has run on a text whose last code point occurs once (the
\* case in which it does not advance the cursor) and has three buckets.
C24_Witness ==
    /\ pc = "building" /\ Len(stack) = 1
    /\ Top.path = "arb" /\ Top.step = "induceSubS"
    /\ Len(Top.bm) = 3
    /\ Cardinality({i \in 1..Len(text) : text[i] = text[Len(text)]}) = 1

(***************************************************************************)
(* Bucket occupancy.                                                       *)
(***************************************************************************)
RECURSIVE SumFirst(_, _)
SumFirst(q, k) == IF k = 0 THEN 0 ELSE q[k] + SumFirst(q, k - 1)

\* The steps of a call on the small-alphabet path at which freq holds the
\* frequencies of the call's text (a recursive call overwrites them, expand
\* counts again).
FreqValid ==
    {"insertLMS", "induceSubL", "induceSubS", "summarise", "recurse", "copy",
     "induceL", "induceS", "return"}

\* freq counts the text, and bucketStart and bucketEnd applied to the scratch
\* d give the present codes their first and last slot and leave the slot of
\* an absent code as it is.
SmallTiles(T, f, d) ==
    LET bs == bucketStart(d, f)
        be == bucketEnd(d, f)
    IN  /\ SumFirst(d, f.curr) = f.n
        /\ \A j \in 0..(f.curr - 1) :
              LET c == f.minChar + j
                  slot == f.src + j + 1
              IN  /\ d[j + 1] = Cardinality({i \in 1..Len(T) : T[i] = c})
                  /\ IF d[j + 1] > 0
                     THEN /\ bs[slot] = BktFirst(T, c) /\ be[slot] = BktLast(T, c)
                          /\ be[slot] - bs[slot] + 1 = d[j + 1]
                     ELSE bs[slot] = d[slot] /\ be[slot] = d[slot]
        /\ \A i \in 1..Len(d) :
              (i <= f.src \/ i > f.src + f.curr) => (bs[i] = d[i] /\ be[i] = d[i])

\* C25: at every recursion level the buckets tile SA: the sizes sum to n
\* and the buckets of the code points present, in ascending order, are
\* consecutive ranges covering 0..n-1; on the small-alphabet path
\* bucketStart and bucketEnd write a cursor only for codes with frequency
\* > 0 and leave the slot of an absent code unchanged; makeBucketsMap
\* leaves every slot of sa equal to 0.
C25_BucketsTile ==
    (pc = "building" /\ stack # <<>>) =>
        /\ (Top.path = "small" /\ Top.step \in FreqValid) =>
              SmallTiles(TopText, Top, heap[Top.dref])
        /\ (Top.path = "arb" /\ Top.step \notin {"_sais", "makeBucketsMap"}) =>
              /\ SumFirst([k \in 1..Len(Top.bm) |-> Top.bm[k].size], Len(Top.bm)) = Top.n
              /\ \A k \in 1..Len(Top.bm) :
                    /\ Top.bm[k].start = BktFirst(TopText, Top.bm[k].ch)
                    /\ Top.bm[k].end = BktLast(TopText, Top.bm[k].ch)
        /\ (Top.path = "arb" /\ Top.step = "insertLMS") =>
              \A i \in 1..Top.n : buf[i] = 0

\* A call on the small-alphabet path whose text holds the codes 0 and 2 but
\* not 1 has counted its frequencies and is about to place its LMS
\* positions.
C25_Witness ==
    /\ pc = "building" /\ Len(stack) = 1
    /\ Top.path = "small" /\ Top.step = "insertLMS"
    /\ Elems(text) = {0, 2}
    /\ Top.curr = 3

(***************************************************************************)
(* The recursion.                                                          *)
(***************************************************************************)
\* The call k has recursed into the call k + 1 with srcAlphaSize = size: its
\* names repeat, the callee works on the summary, and enters with the
\* caller's data.
Recursed(k, size) ==
    /\ stack[k].step = "unmap"
    /\ stack[k].maxName < stack[k].numLMS
    /\ stack[k + 1].n = stack[k].numLMS
    /\ stack[k + 1].src = size
    /\ stack[k + 1].step = "_sais" => stack[k + 1].dref = stack[k].dref

NamesDecide ==
    /\ Top.step = "recurse" => Top.maxName < Top.numLMS
    /\ Top.step = "copy" => Top.maxName >= Top.numLMS

\* C26 as stated: a level whose names repeat (maxName < numLMS) recurses, on
\* either path, on the summary with the same data and with that level's
\* currAlphaSize as the srcAlphaSize of the recursive call.
C26_PassesCurr ==
    (pc = "building" /\ stack # <<>>) =>
        /\ NamesDecide
        /\ \A k \in 1..(Len(stack) - 1) : Recursed(k, stack[k].curr)

\* C26, amended: the small-alphabet path passes the srcAlphaSize it
\* received itself (its currAlphaSize at the outermost level), the
\* arbitrary-alphabet path the number alphaSize of distinct code points that
\* makeBucketsMap returned.
C26_PassesSrcOrAlpha ==
    (pc = "building" /\ stack # <<>>) =>
        /\ NamesDecide
        /\ \A k \in 1..(Len(stack) - 1) :
              Recursed(k, IF stack[k].path = "small" THEN stack[k].src
                          ELSE stack[k].alphaSize)

\* A call on the arbitrary-alphabet path has just recursed: the callee's
\* srcAlphaSize is the caller's count of distinct code points, which is not
\* the caller's currAlphaSize.
C26_Witness ==
    /\ pc = "building" /\ Len(stack) = 2
    /\ stack[1].path = "arb" /\ stack[2].step = "_sais"
    /\ stack[2].src = Cardinality(Elems(text))
    /\ stack[2].src # stack[1].curr

\* Every recursive call works on a text of numLMS code points of its caller,
\* at least 2 and at most (n - 1) / 2 of them, kept in the tail
\* sa[n-numLMS..n) of the caller's array, with the head sa[0..numLMS) as its
\* own array; head and tail do not meet.
Shrinks ==
    \A k \in 1..(Len(stack) - 1) :
        LET m == stack[k].numLMS
            n == stack[k].n
        IN  /\ stack[k + 1].n = m
            /\ 2 <= m /\ 2 * m <= n - 1
            /\ stack[k + 1].tlo = (IF stack[k].tlo < 0 THEN 0 ELSE stack[k].tlo) + n - m
            /\ m <= n - m

\* The steps of a call in the order they are taken, and the number of steps
\* a call on a text of n code points and all the calls below it can take.
StepNo(step) ==
    CASE step = "_sais" -> 0
      [] step \in {"frequency", "makeBucketsMap"} -> 1
      [] step = "insertLMS" -> 2
      [] step = "induceSubL" -> 3
      [] step = "induceSubS" -> 4
      [] step = "summarise" -> 5
      [] step \in {"recurse", "copy"} -> 6
      [] step = "unmap" -> 7
      [] step = "expand" -> 8
      [] step = "induceL" -> 9
      [] step = "induceS" -> 10
      [] step = "return" -> 11

RECURSIVE StepsOf(_)
StepsOf(n) == IF n < 2 THEN 0 ELSE 12 + StepsOf((n - 1) \div 2)

\* The steps the active calls can still take: those left in each call, and
\* for the innermost one, while it may still recurse, those of the calls
\* below it.
RECURSIVE StepsLeft(_, _)
StepsLeft(st, k) ==
    IF k = 0 THEN 0
    ELSE (12 - StepNo(st[k].step))
         + (IF k = Len(st) /\ StepNo(st[k].step) <= 6
            THEN StepsOf((st[k].n - 1) \div 2) ELSE 0)
         + StepsLeft(st, k - 1)

Measure == IF pc = "building" THEN StepsLeft(stack, Len(stack)) ELSE 0

\* The guard of some step of Build holds (the steps are total functions of
\* the state once their guard holds).
CanStep ==
    /\ stack # <<>>
    /\ \/ Top.step \in {"_sais", "summarise", "recurse", "unmap", "copy", "return"}
       \/ Top.step = "frequency" /\ Top.path = "small"
       \/ Top.step = "makeBucketsMap" /\ Top.path = "arb"
       \/ /\ Top.step \in {"insertLMS", "induceSubL", "induceSubS", "expand",
                            "induceL", "induceS"}
          /\ Top.path \in {"small", "arb"}

\* C27: sais terminates for every text: the text of a recursive call has
\* numLMS code points with 2 <= numLMS and 2 * numLMS <= n - 1, head and tail
\* region of SA are disjoint at every level; so the number of steps the
\* active calls can still take drops with every step of a construction, and
\* a construction that has not ended (by returning, or by the failure that
\* is the subject of C3) can take a step.
C27_Terminates ==
    /\ [](pc = "building" => (Shrinks /\ CanStep))
    /\ [][pc = "building" => Measure' < Measure]_vars

\* A recursive call on a text of three names is about to return.
C27_Witness ==
    /\ pc = "building" /\ Len(stack) = 2
    /\ Top.n = 3 /\ stack[1].n = 7 /\ Top.step = "return"

(***************************************************************************)
(* The two specialisations side by side: from the state the innermost      *)
(* call is in, the pass it is about to take as induceSort takes it and as  *)
(* induceSort_arb takes it, on the same text and the same contents of SA.  *)
(***************************************************************************)
PassSteps == {"insertLMS", "induceSubL", "induceSubS", "expand", "induceL", "induceS"}

\* The map induceSort_arb builds for the text of call f.
MapOf(T, f) == makeBucketsMap(T, Ranged(f, <<>>, 1), Pass0(f))

RunSmall(T, f, s0) ==
    CASE f.step = "insertLMS" -> insertLMS(T, f, s0)
      [] f.step = "induceSubL" -> induceSubL(T, f, s0)
      [] f.step = "induceSubS" -> induceSubS(T, f, s0)
      [] f.step = "expand" -> expand(T, f, s0)
      [] f.step = "induceL" -> induceL(T, f, s0)
      [] f.step = "induceS" -> induceS(T, f, s0)

RunArb(T, f, s0) ==
    CASE f.step = "insertLMS" -> insertLMS_arb(T, f, s0)
      [] f.step = "induceSubL" -> induceSubL_arb(T, f, s0)
      [] f.step = "induceSubS" -> induceSubS_arb(T, f, s0)
      [] f.step = "expand" -> expand_arb(T, f, s0)
      [] f.step = "induceL" -> induceL_arb(T, f, s0)
      [] f.step = "induceS" -> induceS_arb(T, f, s0)

\* The pass the innermost call is about to take has the same outcome in
\* both specialisations, whatever the order the map is visited in.
SamePass ==
    LET bm0 == MapOf(text, Top).bm
        sm == RunSmall(text, Top, Pass0(Top))
    IN  \A ord \in Orders(bm0) :
           LET ar == RunArb(text, Ranged(Top, ord, 0), [Pass0(Top) EXCEPT !.bm = bm0])
           IN  /\ ar.err = sm.err
               /\ ~sm.err => ar.buf = sm.buf

\* induceSort has failed before its first pass.
FailedAtFrequency ==
    /\ pc = "panic" /\ stack # <<>>
    /\ Top.path = "small" /\ Top.step = "frequency"

\* C28: the two specialisations agree: for every text with n >= 2 and the
\* same zero-initialised SA, induceSort and induceSort_arb leave the same
\* contents in SA after each corresponding pass (insertLMS, induceSubL,
\* induceSubS, expand, induceL, induceS) and return the same array; so
\* induceSort fails before its first pass only if makeBucketsMap fails too.
C28_Agree ==
    /\ (pc = "building" /\ stack # <<>> /\ Top.path = "small"
            /\ Top.step \in PassSteps) => SamePass
    /\ FailedAtFrequency => MapOf(text, Top).err

\* The same with the texts left out on which _sais computes a negative
\* currAlphaSize (C3).
C28_AgreeUnlessWrapped ==
    /\ (pc = "building" /\ stack # <<>> /\ Top.path = "small"
            /\ Top.step \in PassSteps) => SamePass
    /\ FailedAtFrequency => Top.curr < 0

\* induceSubL is about to run on a text whose last character occurs once.
C28_Witness ==
    /\ pc = "building" /\ stack # <<>> /\ Top.path = "small"
    /\ Top.step = "induceSubL" /\ Len(stack) = 1
    /\ BmGet(MapOf(text, Top).bm, text[Len(text)]).size = 1
    /\ SamePass

(***************************************************************************)
(* GSA queries as functions of the GSA they are asked of.                  *)
(***************************************************************************)
GSAOps == {"GSA.LookupTextOrder", "GSA.LookupSuffix", "GSA.LookupPrefix"}

RunGSA(op, P, g) ==
    CASE op = "GSA.LookupTextOrder" -> GSA_LookupTextOrder(text, buf, g, P)
      [] op = "GSA.LookupSuffix" -> GSA_LookupSuffix(text, buf, g, P)
      [] op = "GSA.LookupPrefix" -> GSA_LookupPrefix(text, buf, g, P)

\* The GSA as the constructor leaves it, over the texts of g.
FreshGSA(g) ==
    LET sz == Len(g.idxBuf)
        n == newGSA_32(g.src, sz)
    IN  [src |-> g.src, strIdx |-> n.strIdx, idx |-> n.idx, idxBuf |-> Zeros(sz),
         index |-> [i \in 1..Len(g.src) |-> [String |-> 0, lo |-> 0, len |-> 0]]]

CountersZero == \A i \in 1..Len(gsa.idx) : gsa.idx[i].i = 0

\* g with the fill counters, the occurrence buffer and the result buffer
\* cleared.
Cleared(g) ==
    [g EXCEPT !.idx = [i \in 1..Len(g.idx) |-> [g.idx[i] EXCEPT !.i = 0]],
              !.idxBuf = Zeros(Len(g.idxBuf)),
              !.index = [i \in 1..Len(g.index) |-> [String |-> 0, lo |-> 0, len |-> 0]]]

\* What holds of a GSA between and after queries: the fill counters are 0,
\* the GSA differs from a freshly built one over the same texts in the
\* contents of its two buffers only, and the query that has just ended gave
\* what it gives on the freshly built GSA (it fails exactly if it fails
\* there).
AsOnFresh ==
    /\ (obj = "gsa" /\ pc \in {"ready", "returned"}) => CountersZero
    /\ (obj = "gsa" /\ pc = "ready") => Cleared(gsa) = FreshGSA(gsa)
    /\ (obj = "gsa" /\ pc \in {"returned", "panic"} /\ ret.op \in GSAOps) =>
          LET fr == RunGSA(ret.op, ret.arg, Cleared(gsa))
          IN  /\ fr.err = (pc = "panic")
              /\ ~fr.err => /\ fr.n = ret.val
                            /\ IndexView(fr, fr.n) = IndexView(gsa, ret.val)

\* C29: GSA queries are history-independent: after any sequence of
\* LookupTextOrder, LookupSuffix and LookupPrefix calls on one GSA every
\* fill counter idx[i].i is 0 when a call has returned, and a query returns
\* what the same query returns on a freshly built GSA over the same texts;
\* a query changes nothing of the GSA but the fill counters and the
\* contents of the two buffers.
C29_HistoryIndependent ==
    /\ []AsOnFresh
    /\ [][(obj = "gsa" /\ pc = "ready") => Cleared(gsa') = Cleared(gsa)]_vars

\* A query has returned one entry with an occurrence on a GSA whose buffer
\* still holds a second entry of an earlier query.
C29_Witness ==
    /\ obj = "gsa" /\ pc = "returned" /\ ret.op \in GSAOps
    /\ ret.val = 1 /\ Len(gsa.index) = 2
    /\ gsa.index[1].len > 0 /\ gsa.index[2].len > 0
    /\ Len(ret.arg) > 0

\* C30: a result returned by a GSA query stays valid: the Index list and
\* the Occurences slices a call has returned have the same contents after a
\* later query on the same GSA as when they were returned.
C30_ResultStaysValid ==
    (obj = "gsa" /\ pc = "returned" /\ ret.op \in GSAOps) =>
        \A op \in GSAOps, P \in GPats :
           LET later == RunGSA(op, P, gsa)
           IN  ~later.err => IndexView(later, ret.val) = IndexView(gsa, ret.val)

====
